---------------------------- MODULE Spec2Model ----------------------------
(***************************************************************************)
(* Model of the versioned schema registry of rabbit-mq-with-go             *)
(* (internal/schema/registry.go): the SchemaRegistry store, its mutating   *)
(* operations Register / Delete / SetCompatibility, its read operations,   *)
(* and the sync.RWMutex discipline that guards them.                       *)
(*                                                                         *)
(* Spec      every public operation is one atomic step (what the lock     *)
(*           gives a caller that runs the operations one after another).  *)
(* ConcSpec  concurrent callers; every operation is split into the lock   *)
(*           acquisition, the statements of its critical section and the  *)
(*           deferred unlock.                                             *)
(***************************************************************************)
EXTENDS Integers, Sequences, FiniteSets, TLC

(***************************************************************************)
(* Bounds of the model.                                                    *)
(***************************************************************************)
\* Number of time.Now() readings (one per successful Register or
\* SetCompatibility) a behaviour of Spec may take.
MaxClock == 3
\* The same for a behaviour of ConcSpec.
MaxConcClock == 2
\* Readings of the clock in ValidateSpec.
MaxValidateClock == 1

(***************************************************************************)
(* Program constants and input domains.                                    *)
(***************************************************************************)
SchemaTypeJSON == "json"
SchemaTypeProtobuf == "protobuf"
SchemaTypeAvro == "avro"
SchemaTypes == {SchemaTypeJSON, SchemaTypeProtobuf, SchemaTypeAvro}

CompatibilityNone == "NONE"
CompatibilityBackward == "BACKWARD"
CompatibilityForward == "FORWARD"
CompatibilityFull == "FULL"
CompatibilityModes ==
    {CompatibilityNone, CompatibilityBackward, CompatibilityForward, CompatibilityFull}

\* NewSchemaRegistry: defaultCompat is set once and never written again.
DefaultCompat == CompatibilityBackward
\* NewSchemaRegistry: the first id the counter hands out.
FirstID == 1

\* Schema names used by callers.
Names == {"OrderEvent", "PaymentEvent"}

(***************************************************************************)
(* JSON values, as encoding/json decodes them into interface{}: nil, bool, *)
(* float64, string, []interface{} and map[string]interface{}.              *)
(***************************************************************************)
JNull == [t |-> "null", v |-> "null"]
JBool(b) == [t |-> "bool", v |-> b]
JNum(n) == [t |-> "num", v |-> n]
JStr(x) == [t |-> "str", v |-> x]
JArr(seq) == [t |-> "arr", v |-> seq]
JObj(f) == [t |-> "obj", v |-> f]

\* A json.RawMessage whose text is well-formed and denotes value.
RawJSON(text, value) == [text |-> text, wf |-> TRUE, val |-> value]

\* json.RawMessage values handed to Register.  A raw message is the text of
\* a document; wf tells whether the text is well-formed JSON and val is the
\* value it denotes when it is.
RawOrderV1 ==
    RawJSON("order-v1", JObj("required" :> JArr(<<JStr("order_id")>>)))
RawOrderV2 ==
    RawJSON("order-v2", JObj("required" :> JArr(<<JStr("order_id"), JStr("amount")>>)))
RawBroken == [text |-> "{broken", wf |-> FALSE, val |-> "none"]

\* json.Unmarshal(raw, &parsed) with parsed of type interface{}: fails
\* exactly on text that is not well-formed JSON.
JSONUnmarshal(raw) ==
    IF raw.wf THEN [err |-> FALSE, value |-> raw.val]
              ELSE [err |-> TRUE, value |-> "none"]

\* *RegisterOptions: a nil pointer, or a struct whose zero-valued fields are
\* the empty string.
NilOptions == [isNil |-> TRUE, Description |-> "", Compatibility |-> ""]

\* (kind, definition, options) triples Register is called with.
RegisterInputs ==
    { <<SchemaTypeJSON, RawOrderV1, NilOptions>>,
      <<SchemaTypeJSON, RawOrderV2, [isNil |-> FALSE, Description |-> "", Compatibility |-> CompatibilityFull]>>,
      <<SchemaTypeJSON, RawBroken, NilOptions>>,
      <<SchemaTypeProtobuf, RawBroken, [isNil |-> FALSE, Description |-> "desc", Compatibility |-> ""]>>,
      <<SchemaTypeAvro, RawOrderV1, NilOptions>> }

\* Modes SetCompatibility is called with.
SetCompatibilityInputs == {CompatibilityNone, CompatibilityForward}

(***************************************************************************)
(* Concurrent callers (ConcSpec).                                          *)
(***************************************************************************)
\* Goroutines calling mutating operations, and goroutines calling reads.
Writers == {"w1", "w2"}
Readers == {"r1", "r2"}
Procs == Writers \cup Readers
NoProc == "none"
NoCall == [op |-> "none"]
NoLocal == [now |-> 0]
NoObs == [none |-> TRUE]

(***************************************************************************)
(* State.                                                                  *)
(***************************************************************************)
VARIABLES
    schemas,    \* r.schemas: map name -> SchemaInfo (a function on the registered names)
    versions,   \* r.versions: map name -> []SchemaVersion (a function on the names with archived versions)
    nextID,     \* r.nextID
    clock,      \* number of time.Now() readings so far; the n-th reading returns n
    ret,        \* the last completed operation of Spec: its arguments and its result
    lineage,    \* history variable: per name, every SchemaInfo installed since the name was last created, oldest first
    issued,     \* history variable: every id handed out by Register, in order
    deleted,    \* history variable: names removed by Delete and not registered since
    pc,         \* ConcSpec: per caller, the statement it is at
    call,       \* ConcSpec: per caller, the operation it is in and its arguments
    local,      \* ConcSpec: per caller, the local variables of the operation
    obs,        \* ConcSpec: per reader, the result its operation has computed
    muWriter,   \* r.mu: the caller that has announced Lock() and not yet returned from Unlock()
    muReaders,  \* r.mu: the callers that hold the read lock
    committed,  \* history variable: the store as the last Unlock() left it
    resp,           \* schema-web: the answer to the latest HTTP request, with the request
    publishHistory, \* schema-web: publishHistory, newest record first
    publishID,      \* schema-web: publishID
    historyMutex,   \* schema-web: historyMutex, the caller that holds it
    msgs,           \* Consume: the deliveries waiting in the channel msgs
    msgsClosed,     \* Consume: whether the channel msgs has been closed
    deliveryTag,    \* the broker: the tag of the latest delivery
    consumePC,      \* Consume: the statement the consumer is at
    msg,            \* Consume: the loop variable msg
    handlerErr,     \* Consume: err, the error the handler returned for msg
    events,         \* history variable: deliveries, handler calls and settlements, in order
    dlq             \* the broker: the messages routed to the dead-letter exchange

store == <<schemas, versions, nextID>>
ghost == <<lineage, issued, deleted>>
conc == <<pc, call, local, obs, muWriter, muReaders, committed>>
web == <<resp, publishHistory, publishID, historyMutex>>
consumer == <<msgs, msgsClosed, deliveryTag, consumePC, msg, handlerErr, events, dlq>>
ext == <<web, consumer>>
vars == <<schemas, versions, nextID, clock, ret, lineage, issued, deleted,
          pc, call, local, obs, muWriter, muReaders, committed,
          resp, publishHistory, publishID, historyMutex,
          msgs, msgsClosed, deliveryTag, consumePC, msg, handlerErr, events, dlq>>

\* No request answered yet, and no delivery in the loop variable.
NoResponse == [status |-> 0]
NoDelivery == [DeliveryTag |-> 0]
\* The handler's return value nil.
NilError == "nil"

\* The web server and the consumer before they have served anything
\* (schema-web main.go 47-51 and 60).
ExtInit ==
    /\ resp = NoResponse
    /\ publishHistory = <<>>
    /\ publishID = 0
    /\ historyMutex = NoProc
    /\ msgs = <<>>
    /\ msgsClosed = FALSE
    /\ deliveryTag = 0
    /\ consumePC = "idle"
    /\ msg = NoDelivery
    /\ handlerErr = NilError
    /\ events = <<>>
    /\ dlq = <<>>

\* Go map read v, ok := m[k].
Has(m, k) == k \in DOMAIN m
\* r.versions[name]: a missing key reads as the nil slice.
VersionsOf(vs, name) == IF name \in DOMAIN vs THEN vs[name] ELSE <<>>
\* m[k] = v
MapPut(m, k, v) == [x \in (DOMAIN m) \cup {k} |-> IF x = k THEN v ELSE m[x]]
\* delete(m, k)
MapDelete(m, k) == [x \in (DOMAIN m) \ {k} |-> m[x]]
EmptyMap == [x \in {} |-> 0]

(***************************************************************************)
(* Register (registry.go 84-134)                                            *)
(***************************************************************************)
\* Variant: the definition is never parsed.
RegisterRejectsNothing(schemaType, schema) == FALSE

\* The JSON well-formedness gate, taken before any state is touched.
RegisterRejects(schemaType, schema) ==
    schemaType = SchemaTypeJSON /\ JSONUnmarshal(schema).err

\* Variant: an unset option keeps the mode of the schema being superseded.
RegisterCompatibilityCarried(s, name, opts) ==
    IF ~opts.isNil /\ opts.Compatibility # "" THEN opts.Compatibility
    ELSE IF Has(s, name) THEN s[name].Compatibility ELSE DefaultCompat

\* compatibility := r.defaultCompat, overridden by a non-empty opts.Compatibility.
RegisterCompatibility(s, name, opts) ==
    IF ~opts.isNil /\ opts.Compatibility # "" THEN opts.Compatibility ELSE DefaultCompat

\* description := "", overridden by opts.Description.
RegisterDescription(opts) == IF opts.isNil THEN "" ELSE opts.Description

\* Variant: a bump re-uses the version of the schema it supersedes.
RegisterVersionStuck(s, name) == IF Has(s, name) THEN s[name].Version ELSE 1

\* version := 1, or existing.Version + 1 when the name has a current schema.
RegisterVersion(s, name) == IF Has(s, name) THEN s[name].Version + 1 ELSE 1

\* Variant: the record is stamped with the version that supersedes it.
ArchiveRecordNextVersion(existing) ==
    [Version |-> existing.Version + 1, Schema |-> existing.Schema, CreatedAt |-> existing.CreatedAt]

\* The SchemaVersion archived for a superseded SchemaInfo.
ArchiveRecord(existing) ==
    [Version |-> existing.Version, Schema |-> existing.Schema, CreatedAt |-> existing.CreatedAt]

\* Variant: the superseded schema is put in front of the history.
RegisterArchiveInFront(vs, s, name) ==
    IF Has(s, name)
    THEN MapPut(vs, name, <<ArchiveRecord(s[name])>> \o VersionsOf(vs, name))
    ELSE vs

\* Variant: a bump archives nothing.
RegisterArchiveSkipped(vs, s, name) == vs

\* r.versions[name] = append(r.versions[name], SchemaVersion{...existing...})
RegisterArchive(vs, s, name) ==
    IF Has(s, name)
    THEN MapPut(vs, name, Append(VersionsOf(vs, name), ArchiveRecord(s[name])))
    ELSE vs

\* Variant: a bump keeps the id of the schema it supersedes.
RegisterIDKept(s, name, id) == IF Has(s, name) THEN s[name].ID ELSE id

\* ID: r.nextID, for a first registration and for a version bump alike.
RegisterID(s, name, id) == id

\* Variant: the version is taken from the id counter.
RegisterInfoVersionFromID(s, id, name, schemaType, schema, opts, now) ==
    [ID |-> RegisterID(s, name, id),
     Name |-> name,
     Version |-> id,
     Type |-> schemaType,
     Schema |-> schema,
     Compatibility |-> RegisterCompatibility(s, name, opts),
     Description |-> RegisterDescription(opts),
     CreatedAt |-> now,
     UpdatedAt |-> now]

\* The SchemaInfo literal installed as r.schemas[name].
RegisterInfo(s, id, name, schemaType, schema, opts, now) ==
    [ID |-> RegisterID(s, name, id),
     Name |-> name,
     Version |-> RegisterVersion(s, name),
     Type |-> schemaType,
     Schema |-> schema,
     Compatibility |-> RegisterCompatibility(s, name, opts),
     Description |-> RegisterDescription(opts),
     CreatedAt |-> now,
     UpdatedAt |-> now]

\* Variant: the counter is not advanced.
RegisterNextIDSame(id) == id

\* r.nextID++
RegisterNextID(id) == id + 1

\* Register 96-133: what a call does once the definition has passed the gate.
RegisterAccepted(name, schemaType, schema, opts) ==
    LET now == clock + 1
        info == RegisterInfo(schemas, nextID, name, schemaType, schema, opts, now)
    IN /\ clock' = now
       /\ versions' = RegisterArchive(versions, schemas, name)
       /\ schemas' = MapPut(schemas, name, info)
       /\ nextID' = RegisterNextID(nextID)
       /\ lineage' = [lineage EXCEPT ![name] = Append(@, info)]
       /\ issued' = Append(issued, info.ID)
       /\ deleted' = deleted \ {name}
       /\ ret' = [op |-> "Register", name |-> name, type |-> schemaType,
                  schema |-> schema, opts |-> opts, ok |-> TRUE,
                  err |-> "none"]

Register(name, schemaType, schema, opts) ==
    IF RegisterRejects(schemaType, schema)
    THEN /\ ret' = [op |-> "Register", name |-> name, type |-> schemaType,
                    schema |-> schema, opts |-> opts, ok |-> FALSE,
                    err |-> "InvalidDefinition"]
         /\ UNCHANGED <<store, clock, ghost>>
    ELSE /\ clock < MaxClock
         /\ RegisterAccepted(name, schemaType, schema, opts)

(***************************************************************************)
(* Delete (registry.go 231-242)                                            *)
(***************************************************************************)
\* Variant: the whole map is cleared.
DeleteSchemasAll(s, name) == EmptyMap

\* delete(r.schemas, name)
DeleteSchemas(s, name) == MapDelete(s, name)
\* Variant: the history outlives the name.
DeleteVersionsKept(vs, name) == vs

\* delete(r.versions, name)
DeleteVersions(vs, name) == MapDelete(vs, name)

\* Variant: a successful Delete gives the id of the removed schema back to
\* the counter.
DeleteRollsBackID(name) ==
    IF ~Has(schemas, name)
    THEN /\ ret' = [op |-> "Delete", name |-> name, ok |-> FALSE, err |-> "NotFound",
                    dropped |-> 0]
         /\ UNCHANGED <<store, clock, ghost>>
    ELSE /\ schemas' = DeleteSchemas(schemas, name)
         /\ versions' = DeleteVersions(versions, name)
         /\ nextID' = schemas[name].ID
         /\ lineage' = [lineage EXCEPT ![name] = <<>>]
         /\ deleted' = deleted \cup {name}
         /\ ret' = [op |-> "Delete", name |-> name, ok |-> TRUE, err |-> "none",
                    dropped |-> Len(VersionsOf(versions, name))]
         /\ UNCHANGED <<clock, issued>>

Delete(name) ==
    IF ~Has(schemas, name)
    THEN /\ ret' = [op |-> "Delete", name |-> name, ok |-> FALSE, err |-> "NotFound",
                    dropped |-> 0]
         /\ UNCHANGED <<store, clock, ghost>>
    ELSE /\ schemas' = DeleteSchemas(schemas, name)
         /\ versions' = DeleteVersions(versions, name)
         /\ lineage' = [lineage EXCEPT ![name] = <<>>]
         /\ deleted' = deleted \cup {name}
         /\ ret' = [op |-> "Delete", name |-> name, ok |-> TRUE, err |-> "none",
                    dropped |-> Len(VersionsOf(versions, name))]
         /\ UNCHANGED <<nextID, clock, issued>>

(***************************************************************************)
(* SetCompatibility (registry.go 403-416)                                  *)
(***************************************************************************)
\* Variant: a mode change counts as a new version.
SetCompatibilityInfoBumps(schema, mode, now) ==
    [schema EXCEPT !.Compatibility = mode, !.UpdatedAt = now, !.Version = @ + 1]

\* schema.Compatibility = mode; schema.UpdatedAt = time.Now()
SetCompatibilityInfo(schema, mode, now) ==
    [schema EXCEPT !.Compatibility = mode, !.UpdatedAt = now]

SetCompatibility(name, mode) ==
    IF ~Has(schemas, name)
    THEN /\ ret' = [op |-> "SetCompatibility", name |-> name, mode |-> mode,
                    ok |-> FALSE, err |-> "NotFound"]
         /\ UNCHANGED <<store, clock, ghost>>
    ELSE /\ clock < MaxClock
         /\ LET now == clock + 1
                info == SetCompatibilityInfo(schemas[name], mode, now)
            IN /\ clock' = now
               /\ schemas' = MapPut(schemas, name, info)
               /\ lineage' = [lineage EXCEPT ![name][Len(lineage[name])] = info]
               /\ ret' = [op |-> "SetCompatibility", name |-> name, mode |-> mode,
                          ok |-> TRUE, err |-> "none"]
               /\ UNCHANGED <<versions, nextID, issued, deleted>>

(***************************************************************************)
(* Read operations: each is a function of the store it sees while it holds *)
(* the read lock.  A result is [ok |-> TRUE, val |-> v] or the error       *)
(* NotFound.                                                               *)
(***************************************************************************)
NotFound == [ok |-> FALSE, val |-> "NotFound"]
Found(v) == [ok |-> TRUE, val |-> v]

\* Get (registry.go 137-146)
Get(s, name) == IF Has(s, name) THEN Found(s[name]) ELSE NotFound

\* The orders in which a range over a Go map may visit the keys in S.
RangeOrders(S) ==
    {o \in [1..Cardinality(S) -> S] : \A i, j \in 1..Cardinality(S) : i # j => o[i] # o[j]}

\* GetByID's loop (registry.go 153-158) over the keys in the order given:
\* the first schema with the id is returned.
RECURSIVE ScanByID(_, _, _)
ScanByID(s, order, id) ==
    IF order = <<>> THEN NotFound
    ELSE IF s[Head(order)].ID = id THEN Found(s[Head(order)])
    ELSE ScanByID(s, Tail(order), id)

\* GetByID (registry.go 149-159): the results the map's iteration orders allow.
GetByID(s, id) == {ScanByID(s, o, id) : o \in RangeOrders(DOMAIN s)}

\* GetVersion's loop over the history (registry.go 181-186).
RECURSIVE ScanVersion(_, _)
ScanVersion(hist, version) ==
    IF hist = <<>> THEN NotFound
    ELSE IF Head(hist).Version = version THEN Found(Head(hist))
    ELSE ScanVersion(Tail(hist), version)

\* Variant: only the history is searched.
GetVersionHistoryOnly(s, vs, name, version) ==
    IF ~Has(s, name) THEN NotFound
    ELSE ScanVersion(VersionsOf(vs, name), version)

\* GetVersion (registry.go 162-189): the current schema first, then the history.
GetVersion(s, vs, name, version) ==
    IF ~Has(s, name) THEN NotFound
    ELSE IF s[name].Version = version THEN Found(ArchiveRecord(s[name]))
    ELSE ScanVersion(VersionsOf(vs, name), version)

\* Variant: the current schema is not appended.
GetVersionsHistoryOnly(s, vs, name) ==
    IF ~Has(s, name) THEN NotFound
    ELSE Found(VersionsOf(vs, name))

\* GetVersions (registry.go 192-210): a fresh slice, the history followed by
\* the current schema.
GetVersions(s, vs, name) ==
    IF ~Has(s, name) THEN NotFound
    ELSE Found(Append(VersionsOf(vs, name), ArchiveRecord(s[name])))

\* Count (registry.go 245-249)
Count(s) == Cardinality(DOMAIN s)

\* Variant: the slice is returned as the map was ranged, unsorted.
ListUnsorted(s) ==
    {[i \in 1..Cardinality(DOMAIN s) |-> s[o[i]]] : o \in RangeOrders(DOMAIN s)}

\* List (registry.go 213-228): the current schemas, sorted by sort.Slice on
\* ID; schemas with equal ids may come out in either order.
List(s) ==
    {[i \in 1..Cardinality(DOMAIN s) |-> s[o[i]]] :
        o \in {o \in RangeOrders(DOMAIN s) :
                 \A i, j \in 1..Cardinality(DOMAIN s) : i < j => s[o[i]].ID <= s[o[j]].ID}}

\* GetStats' accumulation of totalVersions over the names in S.
RECURSIVE TotalVersions(_, _)
TotalVersions(vs, S) ==
    IF S = {} THEN 0
    ELSE LET n == CHOOSE x \in S : TRUE
         IN Len(VersionsOf(vs, n)) + 1 + TotalVersions(vs, S \ {n})

\* Variant: only archived versions are counted.
GetStatsHistoryOnly(s, vs) ==
    [total_schemas |-> Cardinality(DOMAIN s),
     total_versions |-> TotalVersions(vs, DOMAIN s) - Cardinality(DOMAIN s),
     by_type |-> [t \in {s[n].Type : n \in DOMAIN s} |->
                     Cardinality({n \in DOMAIN s : s[n].Type = t})]]

\* GetStats (registry.go 419-436)
GetStats(s, vs) ==
    [total_schemas |-> Cardinality(DOMAIN s),
     total_versions |-> TotalVersions(vs, DOMAIN s),
     by_type |-> [t \in {s[n].Type : n \in DOMAIN s} |->
                     Cardinality({n \in DOMAIN s : s[n].Type = t})]]

\* OrderEventSchema (registry.go 442-453).
OrderEventSchema ==
    RawJSON("OrderEventSchema",
        JObj( "$schema" :> JStr("http://json-schema.org/draft-07/schema#")
           @@ "type" :> JStr("object")
           @@ "required" :> JArr(<<JStr("order_id"), JStr("customer_id"), JStr("amount"),
                                   JStr("status"), JStr("created_at")>>)
           @@ "properties" :> JObj(
                  "order_id" :> JObj("type" :> JStr("string"))
               @@ "customer_id" :> JObj("type" :> JStr("string"))
               @@ "amount" :> JObj("type" :> JStr("number") @@ "minimum" :> JNum(0))
               @@ "status" :> JObj("type" :> JStr("string")
                                @@ "enum" :> JArr(<<JStr("created"), JStr("paid"), JStr("shipped"),
                                                    JStr("delivered"), JStr("cancelled")>>))
               @@ "created_at" :> JObj("type" :> JStr("string") @@ "format" :> JStr("date-time")))))

\* Definitions a caller may hand to Register that are well-formed JSON but
\* not schemas of the expected shape: an array, and an object whose required
\* array holds a number.
ArraySchema == RawJSON("[1]", JArr(<<JNum(1)>>))
NumberInRequiredSchema ==
    RawJSON("{\"required\":[1]}", JObj("required" :> JArr(<<JNum(1)>>)))

\* PaymentEventSchema (registry.go 482-495).
PaymentEventSchema ==
    RawJSON("PaymentEventSchema",
        JObj( "$schema" :> JStr("http://json-schema.org/draft-07/schema#")
           @@ "type" :> JStr("object")
           @@ "required" :> JArr(<<JStr("payment_id"), JStr("order_id"), JStr("amount"),
                                   JStr("currency"), JStr("status")>>)
           @@ "properties" :> JObj(
                  "payment_id" :> JObj("type" :> JStr("string"))
               @@ "order_id" :> JObj("type" :> JStr("string"))
               @@ "amount" :> JObj("type" :> JStr("number") @@ "minimum" :> JNum(0))
               @@ "currency" :> JObj("type" :> JStr("string")
                                  @@ "enum" :> JArr(<<JStr("KRW"), JStr("USD"), JStr("EUR"),
                                                      JStr("JPY")>>))
               @@ "status" :> JObj("type" :> JStr("string")
                                @@ "enum" :> JArr(<<JStr("pending"), JStr("completed"),
                                                    JStr("failed"), JStr("refunded")>>))
               @@ "method" :> JObj("type" :> JStr("string")
                                @@ "enum" :> JArr(<<JStr("card"), JStr("bank"), JStr("virtual"),
                                                    JStr("point")>>))
               @@ "created_at" :> JObj("type" :> JStr("string") @@ "format" :> JStr("date-time")))))

\* NotificationEventSchema (registry.go 455-467).
NotificationEventSchema ==
    RawJSON("NotificationEventSchema",
        JObj( "$schema" :> JStr("http://json-schema.org/draft-07/schema#")
           @@ "type" :> JStr("object")
           @@ "required" :> JArr(<<JStr("type"), JStr("recipient"), JStr("subject"),
                                   JStr("body")>>)
           @@ "properties" :> JObj(
                  "type" :> JObj("type" :> JStr("string")
                              @@ "enum" :> JArr(<<JStr("email"), JStr("sms"), JStr("push")>>))
               @@ "recipient" :> JObj("type" :> JStr("string"))
               @@ "subject" :> JObj("type" :> JStr("string"))
               @@ "body" :> JObj("type" :> JStr("string"))
               @@ "metadata" :> JObj("type" :> JStr("object"))
               @@ "created_at" :> JObj("type" :> JStr("string") @@ "format" :> JStr("date-time")))))

\* UserEventSchema (registry.go 469-480).
UserEventSchema ==
    RawJSON("UserEventSchema",
        JObj( "$schema" :> JStr("http://json-schema.org/draft-07/schema#")
           @@ "type" :> JStr("object")
           @@ "required" :> JArr(<<JStr("user_id"), JStr("action"), JStr("timestamp")>>)
           @@ "properties" :> JObj(
                  "user_id" :> JObj("type" :> JStr("string"))
               @@ "action" :> JObj("type" :> JStr("string")
                                @@ "enum" :> JArr(<<JStr("login"), JStr("logout"), JStr("signup"),
                                                    JStr("delete")>>))
               @@ "ip_address" :> JObj("type" :> JStr("string"))
               @@ "user_agent" :> JObj("type" :> JStr("string"))
               @@ "timestamp" :> JObj("type" :> JStr("string") @@ "format" :> JStr("date-time")))))

\* A schema without a required array whose properties are a number without
\* a minimum, a boolean, an object, an array, a property of a type the
\* engine does not know and a property without a type.
LooseSchema ==
    RawJSON("loose",
        JObj("properties" :> JObj(
                  "count" :> JObj("type" :> JStr("number"))
               @@ "flag" :> JObj("type" :> JStr("boolean"))
               @@ "meta" :> JObj("type" :> JStr("object"))
               @@ "tags" :> JObj("type" :> JStr("array"))
               @@ "level" :> JObj("type" :> JStr("integer"))
               @@ "note" :> JObj(EmptyMap))))

\* Further definitions that are well-formed JSON: null, a string, an object
\* with a property that is a number, and an object with an enum that holds
\* a number.
NullSchema == RawJSON("null", JNull)
StringSchema == RawJSON("\"x\"", JStr("x"))
NumberPropertySchema ==
    RawJSON("{\"properties\":{\"status\":1}}",
        JObj("properties" :> JObj("status" :> JNum(1))))
NumberInEnumSchema ==
    RawJSON("{\"properties\":{\"status\":{\"type\":\"string\",\"enum\":[1]}}}",
        JObj("properties" :> JObj(
                 "status" :> JObj("type" :> JStr("string") @@ "enum" :> JArr(<<JNum(1)>>)))))

\* Payloads handed to Validate.
PayloadOrderOK ==
    RawJSON("order ok",
        JObj( "order_id" :> JStr("ORD-1") @@ "customer_id" :> JStr("C-1")
           @@ "amount" :> JNum(100) @@ "status" :> JStr("created")
           @@ "created_at" :> JStr("2024-01-01T00:00:00Z")))
PayloadOrderBad ==
    RawJSON("order bad",
        JObj("order_id" :> JStr("ORD-2") @@ "amount" :> JNum(-5) @@ "status" :> JStr("bogus")))
PayloadWrongTypes ==
    RawJSON("wrong types",
        JObj( "order_id" :> JNum(7) @@ "customer_id" :> JStr("C-1") @@ "amount" :> JStr("x")
           @@ "status" :> JStr("paid") @@ "created_at" :> JStr("now")))
PayloadEmptyObject == RawJSON("{}", JObj(EmptyMap))
PayloadArray == RawJSON("[]", JArr(<<>>))
PayloadNull == RawJSON("null", JNull)
PayloadNullField ==
    RawJSON("null field", JObj("order_id" :> JNull @@ "customer_id" :> JStr("C-1")))
PayloadStatusNumber == RawJSON("status number", JObj("status" :> JNum(5)))
PayloadStatusUpper == RawJSON("status upper", JObj("status" :> JStr("CREATED")))
PayloadAmountZero == RawJSON("amount zero", JObj("amount" :> JNum(0)))
PayloadLooseOK ==
    RawJSON("loose ok",
        JObj( "count" :> JNum(-7) @@ "flag" :> JBool(FALSE)
           @@ "meta" :> JObj("deep" :> JArr(<<JNum(1)>>))
           @@ "tags" :> JArr(<<JNum(1), JStr("x")>>)))
PayloadLooseOdd ==
    RawJSON("loose odd",
        JObj( "level" :> JStr("high") @@ "note" :> JArr(<<>>)
           @@ "extra" :> JNull @@ "flag" :> JBool(TRUE)))
PayloadLooseBad ==
    RawJSON("loose bad",
        JObj( "count" :> JBool(TRUE) @@ "flag" :> JStr("yes")
           @@ "meta" :> JArr(<<>>) @@ "tags" :> JObj(EmptyMap)))
PayloadPaymentOK ==
    RawJSON("payment ok",
        JObj( "payment_id" :> JStr("P1") @@ "order_id" :> JStr("O1") @@ "amount" :> JNum(500)
           @@ "currency" :> JStr("KRW") @@ "status" :> JStr("completed")))
PayloadBroken == [text |-> "{\"order_id\":", wf |-> FALSE, val |-> "none"]
Payloads ==
    {PayloadOrderOK, PayloadOrderBad, PayloadWrongTypes, PayloadEmptyObject,
     PayloadArray, PayloadNull, PayloadBroken,
     PayloadNullField, PayloadStatusNumber, PayloadStatusUpper, PayloadAmountZero,
     PayloadLooseOK, PayloadLooseOdd, PayloadLooseBad, PayloadPaymentOK}

\* json.Unmarshal(raw, &m) with m of type map[string]interface{}: fails on
\* malformed text and on a value that is neither an object nor null; null
\* leaves the nil map, which reads as empty.
JSONUnmarshalMap(raw) ==
    IF ~raw.wf THEN [err |-> TRUE, value |-> EmptyMap]
    ELSE IF raw.val.t = "obj" THEN [err |-> FALSE, value |-> raw.val.v]
    ELSE IF raw.val.t = "null" THEN [err |-> FALSE, value |-> EmptyMap]
    ELSE [err |-> TRUE, value |-> EmptyMap]

(***************************************************************************)
(* Validate (registry.go 252-400).  An outcome of a call is a returned     *)
(* ValidationResult or a run-time panic of a failed type assertion.  The   *)
(* steps that collect errors yield [panic, errs].                          *)
(***************************************************************************)
ValidationResult(valid, errors, message) ==
    [Valid |-> valid, Errors |-> errors, Message |-> message]
Returned(result) == [panic |-> FALSE, result |-> result]
Panicked == [panic |-> TRUE, result |-> "none"]

Errs(seq) == [panic |-> FALSE, errs |-> seq]
PanicErrs == [panic |-> TRUE, errs |-> <<>>]
\* Variant: the errors of the second step are dropped when the first found some.
ThenFirstOnly(a, b) ==
    IF a.panic THEN PanicErrs
    ELSE IF a.errs # <<>> THEN a
    ELSE b

\* Sequencing of two steps: a panic in the first ends the call.
Then(a, b) ==
    IF a.panic THEN PanicErrs
    ELSE IF b.panic THEN PanicErrs
    ELSE Errs(a.errs \o b.errs)

\* The texts of the errors, as the format and its arguments.
ErrSchemaNotFound(name) == <<"schema not found", name>>
ErrProtobufUnsupported == <<"protobuf validation not supported yet">>
ErrAvroUnsupported == <<"avro validation not supported yet">>
ErrUnknownType(schemaType) == <<"unknown schema type", schemaType>>
ErrPayloadParse == <<"JSON parse failed">>
ErrSchemaParse == <<"schema parse failed">>
ErrMissingRequired(fieldName) == <<"missing required field", fieldName>>
ErrWrongType(name, expected) == <<"field must be of type", name, expected>>
ErrNotAllowed(name, strVal) == <<"value not allowed for field", name, strVal>>
ErrBelowMinimum(name, min) == <<"field must be at least", name, min>>
\* The texts of ValidationResult.Message.
MsgLookupFailed == <<"schema lookup failed">>
MsgUnsupportedType == <<"unsupported type">>
MsgUnknownType == <<"unknown type">>
MsgMalformedPayload == <<"malformed payload">>
MsgMalformedSchema == <<"malformed schema">>
MsgErrorCount(n) == <<"validation errors", n>>
MsgSucceeded == <<"validation succeeded">>

\* Variant: only the first member of the enum is compared.
EnumSearchFirstOnly(enum, strVal) ==
    IF enum = <<>> THEN "absent"
    ELSE IF Head(enum).t # "str" THEN "panic"
    ELSE IF Head(enum).v = strVal THEN "found"
    ELSE "absent"

\* validateField 357-362: the search of the enum for strVal; e.(string)
\* panics on a member that is not a string.
RECURSIVE EnumSearch(_, _)
EnumSearch(enum, strVal) ==
    IF enum = <<>> THEN "absent"
    ELSE IF Head(enum).t # "str" THEN "panic"
    ELSE IF Head(enum).v = strVal THEN "found"
    ELSE EnumSearch(Tail(enum), strVal)

\* Variant: the minimum itself is refused.
BelowMinimumOrEqual(v, min) == v <= min

\* validateField 373: v < min.
BelowMinimum(v, min) == v < min

\* Variant: a type the engine does not know refuses every value.
validateFieldStrict(name, value, propDef) ==
    LET expectedType ==
            IF Has(propDef, "type") /\ propDef["type"].t = "str" THEN propDef["type"].v ELSE ""
    IN CASE expectedType = "string" ->
                IF value.t # "str" THEN Errs(<<ErrWrongType(name, "string")>>)
                ELSE IF Has(propDef, "enum") /\ propDef["enum"].t = "arr"
                THEN LET found == EnumSearch(propDef["enum"].v, value.v)
                     IN CASE found = "panic" -> PanicErrs
                          [] found = "found" -> Errs(<<>>)
                          [] OTHER -> Errs(<<ErrNotAllowed(name, value.v)>>)
                ELSE Errs(<<>>)
         [] expectedType = "number" ->
                IF value.t # "num" THEN Errs(<<ErrWrongType(name, "number")>>)
                ELSE IF /\ Has(propDef, "minimum") /\ propDef["minimum"].t = "num"
                        /\ BelowMinimum(value.v, propDef["minimum"].v)
                THEN Errs(<<ErrBelowMinimum(name, propDef["minimum"].v)>>)
                ELSE Errs(<<>>)
         [] expectedType = "boolean" ->
                IF value.t # "bool" THEN Errs(<<ErrWrongType(name, "boolean")>>) ELSE Errs(<<>>)
         [] expectedType = "object" ->
                IF value.t # "obj" THEN Errs(<<ErrWrongType(name, "object")>>) ELSE Errs(<<>>)
         [] expectedType = "array" ->
                IF value.t # "arr" THEN Errs(<<ErrWrongType(name, "array")>>) ELSE Errs(<<>>)
         [] OTHER -> Errs(<<ErrWrongType(name, expectedType)>>)

\* validateField (registry.go 345-400).
validateField(name, value, propDef) ==
    LET expectedType ==
            IF Has(propDef, "type") /\ propDef["type"].t = "str" THEN propDef["type"].v ELSE ""
    IN CASE expectedType = "string" ->
                IF value.t # "str" THEN Errs(<<ErrWrongType(name, "string")>>)
                ELSE IF Has(propDef, "enum") /\ propDef["enum"].t = "arr"
                THEN LET found == EnumSearch(propDef["enum"].v, value.v)
                     IN CASE found = "panic" -> PanicErrs
                          [] found = "found" -> Errs(<<>>)
                          [] OTHER -> Errs(<<ErrNotAllowed(name, value.v)>>)
                ELSE Errs(<<>>)
         [] expectedType = "number" ->
                IF value.t # "num" THEN Errs(<<ErrWrongType(name, "number")>>)
                ELSE IF /\ Has(propDef, "minimum") /\ propDef["minimum"].t = "num"
                        /\ BelowMinimum(value.v, propDef["minimum"].v)
                THEN Errs(<<ErrBelowMinimum(name, propDef["minimum"].v)>>)
                ELSE Errs(<<>>)
         [] expectedType = "boolean" ->
                IF value.t # "bool" THEN Errs(<<ErrWrongType(name, "boolean")>>) ELSE Errs(<<>>)
         [] expectedType = "object" ->
                IF value.t # "obj" THEN Errs(<<ErrWrongType(name, "object")>>) ELSE Errs(<<>>)
         [] expectedType = "array" ->
                IF value.t # "arr" THEN Errs(<<ErrWrongType(name, "array")>>) ELSE Errs(<<>>)
         [] OTHER -> Errs(<<>>)

\* Variant: a key whose value is null counts as absent.
RequiredPresentNonNull(dataMap, fieldName) ==
    Has(dataMap, fieldName) /\ dataMap[fieldName].t # "null"

\* validateJSON 312: _, exists := dataMap[fieldName].
RequiredPresent(dataMap, fieldName) == Has(dataMap, fieldName)

\* validateJSON 309-316: the loop over the required array; field.(string)
\* panics on an entry that is not a string.
RECURSIVE RequiredErrors(_, _)
RequiredErrors(required, dataMap) ==
    IF required = <<>> THEN Errs(<<>>)
    ELSE IF Head(required).t # "str" THEN PanicErrs
    ELSE Then(IF RequiredPresent(dataMap, Head(required).v)
              THEN Errs(<<>>)
              ELSE Errs(<<ErrMissingRequired(Head(required).v)>>),
              RequiredErrors(Tail(required), dataMap))

\* validateJSON 320-327: the loop over the payload's keys in the order
\* given; propDef.(map[string]interface{}) panics on a property that is not
\* an object.
RECURSIVE PropertyErrors(_, _, _)
PropertyErrors(order, dataMap, properties) ==
    IF order = <<>> THEN Errs(<<>>)
    ELSE LET fieldName == Head(order)
         IN IF ~Has(properties, fieldName)
            THEN PropertyErrors(Tail(order), dataMap, properties)
            ELSE IF properties[fieldName].t # "obj" THEN PanicErrs
            ELSE Then(validateField(fieldName, dataMap[fieldName], properties[fieldName].v),
                      PropertyErrors(Tail(order), dataMap, properties))

\* The orders in which a range over a Go map may visit the keys in S.
RECURSIVE KeyOrders(_)
KeyOrders(S) ==
    IF S = {} THEN {<<>>}
    ELSE UNION {{<<k>> \o o : o \in KeyOrders(S \ {k})} : k \in S}

\* Variant: the result is a failure with a count even when nothing was found.
ResultOfErrorsNeverValid(e) ==
    IF e.panic THEN Panicked
    ELSE Returned(ValidationResult(FALSE, e.errs, MsgErrorCount(Len(e.errs))))

\* validateJSON 330-341: the result built from the collected errors.
ResultOfErrors(e) ==
    IF e.panic THEN Panicked
    ELSE IF Len(e.errs) > 0
    THEN Returned(ValidationResult(FALSE, e.errs, MsgErrorCount(Len(e.errs))))
    ELSE Returned(ValidationResult(TRUE, <<>>, MsgSucceeded))

\* Variant: every property the schema lists is demanded of the payload.
CollectErrorsAllDemanded(order, dataMap, schemaMap) ==
    Then(Then(IF Has(schemaMap, "required") /\ schemaMap["required"].t = "arr"
              THEN RequiredErrors(schemaMap["required"].v, dataMap)
              ELSE Errs(<<>>),
              IF Has(schemaMap, "properties") /\ schemaMap["properties"].t = "obj"
              THEN PropertyErrors(order, dataMap, schemaMap["properties"].v)
              ELSE Errs(<<>>)),
         IF /\ Has(schemaMap, "properties") /\ schemaMap["properties"].t = "obj"
            /\ (DOMAIN schemaMap["properties"].v) \ (DOMAIN dataMap) # {}
         THEN Errs(<<ErrMissingRequired(
                        CHOOSE k \in (DOMAIN schemaMap["properties"].v) \ (DOMAIN dataMap) : TRUE)>>)
         ELSE Errs(<<>>))

\* validateJSON 306-328 for one order of the payload's keys.
CollectErrors(order, dataMap, schemaMap) ==
    Then(IF Has(schemaMap, "required") /\ schemaMap["required"].t = "arr"
         THEN RequiredErrors(schemaMap["required"].v, dataMap)
         ELSE Errs(<<>>),
         IF Has(schemaMap, "properties") /\ schemaMap["properties"].t = "obj"
         THEN PropertyErrors(order, dataMap, schemaMap["properties"].v)
         ELSE Errs(<<>>))

\* validateJSON (registry.go 287-342): the outcomes the iteration orders of
\* the payload map allow.
validateJSON(schema, data) ==
    LET d == JSONUnmarshalMap(data)
        sm == JSONUnmarshalMap(schema.Schema)
    IN IF d.err
       THEN {Returned(ValidationResult(FALSE, <<ErrPayloadParse>>, MsgMalformedPayload))}
       ELSE IF sm.err
       THEN {Returned(ValidationResult(FALSE, <<ErrSchemaParse>>, MsgMalformedSchema))}
       ELSE {ResultOfErrors(CollectErrors(o, d.value, sm.value)) : o \in KeyOrders(DOMAIN d.value)}

\* Variant: an unsupported kind is reported as an error-free failure.
UnsupportedResultNoErrors(err) == ValidationResult(FALSE, <<>>, MsgUnsupportedType)

\* Validate 266-276: the result for a kind without a validator.
UnsupportedResult(err) == ValidationResult(FALSE, <<err>>, MsgUnsupportedType)

\* Variant: an unknown name is given an empty, passing result.
LookupFailedResultPasses(name) == ValidationResult(TRUE, <<>>, MsgLookupFailed)

\* Validate 254-260: the result when Get fails.
LookupFailedResult(name) ==
    ValidationResult(FALSE, <<ErrSchemaNotFound(name)>>, MsgLookupFailed)

\* Validate (registry.go 252-284): the outcomes of a call on the store s.
Validate(s, schemaName, data) ==
    LET g == Get(s, schemaName)
    IN IF ~g.ok THEN {Returned(LookupFailedResult(schemaName))}
       ELSE CASE g.val.Type = SchemaTypeJSON -> validateJSON(g.val, data)
              [] g.val.Type = SchemaTypeProtobuf ->
                    {Returned(UnsupportedResult(ErrProtobufUnsupported))}
              [] g.val.Type = SchemaTypeAvro ->
                    {Returned(UnsupportedResult(ErrAvroUnsupported))}
              [] OTHER ->
                    {Returned(ValidationResult(FALSE, <<ErrUnknownType(g.val.Type)>>, MsgUnknownType))}

(***************************************************************************)
(* Specification: every operation is one atomic step.                      *)
(***************************************************************************)
Init ==
    /\ schemas = EmptyMap
    /\ versions = EmptyMap
    /\ nextID = FirstID
    /\ clock = 0
    /\ ret = [op |-> "NewSchemaRegistry", ok |-> TRUE]
    /\ lineage = [n \in Names |-> <<>>]
    /\ issued = <<>>
    /\ deleted = {}
    /\ pc = [p \in Procs |-> "idle"]
    /\ call = [p \in Procs |-> NoCall]
    /\ local = [p \in Procs |-> NoLocal]
    /\ obs = [p \in Readers |-> NoObs]
    /\ muWriter = NoProc
    /\ muReaders = {}
    /\ committed = <<EmptyMap, EmptyMap, FirstID>>
    /\ ExtInit

Next ==
    \/ \E n \in Names, in \in RegisterInputs :
           Register(n, in[1], in[2], in[3]) /\ UNCHANGED <<conc, ext>>
    \/ \E n \in Names : Delete(n) /\ UNCHANGED <<conc, ext>>
    \/ \E n \in Names, m \in SetCompatibilityInputs :
           SetCompatibility(n, m) /\ UNCHANGED <<conc, ext>>

Spec == Init /\ [][Next]_vars

(***************************************************************************)
(* Properties of the store under Spec.                                     *)
(***************************************************************************)
\* Versions and ids a lookup may be asked for.
VersionRange == 0..(MaxClock + 1)
IDRange == 0..(MaxClock + 1)

IsPrefix(a, b) == Len(a) <= Len(b) /\ \A i \in 1..Len(a) : a[i] = b[i]

\* C1 - Version monotonicity: after n successful Register calls for a name
\* since it was last unregistered (lineage[name] has n entries) the schemas
\* installed carried the versions 1..n in call order, the current version is
\* n, and GetVersions returns exactly n entries with versions 1..n ascending.
VersionMonotonicity ==
    \A n \in Names :
        Len(lineage[n]) > 0 =>
            /\ Has(schemas, n)
            /\ schemas[n].Version = Len(lineage[n])
            /\ \A k \in 1..Len(lineage[n]) : lineage[n][k].Version = k
            /\ LET r == GetVersions(schemas, versions, n)
               IN /\ r.ok
                  /\ Len(r.val) = Len(lineage[n])
                  /\ \A k \in 1..Len(r.val) : r.val[k].Version = k

\* Three registrations of one name: versions 1, 2, 3.
VersionMonotonicityWitness ==
    \E n \in Names :
        /\ Len(lineage[n]) = 3
        /\ GetVersions(schemas, versions, n).ok
        /\ Len(GetVersions(schemas, versions, n).val) = 3

\* C2 - Id monotonicity: no two current schemas hold the same id, the ids
\* handed out are strictly increasing in the order they were issued (so none
\* is issued twice, also not after a Delete), every current id was issued and
\* the counter is above all of them.
IdMonotonicity ==
    /\ \A n, m \in DOMAIN schemas : n # m => schemas[n].ID # schemas[m].ID
    /\ \A i, j \in 1..Len(issued) : i < j => issued[i] < issued[j]
    /\ \A i \in 1..Len(issued) : issued[i] < nextID
    /\ \A n \in DOMAIN schemas : \E i \in 1..Len(issued) : issued[i] = schemas[n].ID

\* An id issued after a Delete: three ids were handed out, a name was deleted,
\* and the last operation registered the other name anew.
IdMonotonicityWitness ==
    /\ Len(issued) = 3
    /\ deleted # {}
    /\ ret.op = "Register" /\ ret.ok
    /\ schemas[ret.name].ID = issued[3]

\* C3 - Atomic delete: for a name removed by Delete and not registered
\* since, Get, GetVersions and GetVersion of every version return NotFound
\* and no history is left in the store.
AtomicDelete ==
    \A n \in deleted :
        /\ Get(schemas, n) = NotFound
        /\ GetVersions(schemas, versions, n) = NotFound
        /\ \A v \in VersionRange : GetVersion(schemas, versions, n, v) = NotFound
        /\ ~Has(schemas, n)
        /\ ~Has(versions, n)

\* A Delete that removed a name together with two archived versions.
AtomicDeleteWitness ==
    /\ ret.op = "Delete" /\ ret.ok /\ ret.dropped = 2
    /\ ret.name \in deleted

\* C4 - History immutability: in every step that keeps a name registered,
\* the history the name had before the step is a prefix of the history it
\* has after it: records are only appended, never rewritten or reordered.
HistoryImmutability ==
    [][\A n \in DOMAIN versions :
          Has(schemas', n) => Has(versions', n) /\ IsPrefix(versions[n], versions'[n])]_vars

\* A record that was archived first and is still first after a later Register:
\* the history holds the first two schemas of the lineage, in order.
HistoryImmutabilityWitness ==
    \E n \in DOMAIN versions :
        /\ Len(versions[n]) = 2
        /\ versions[n][1] = ArchiveRecord(lineage[n][1])
        /\ versions[n][2] = ArchiveRecord(lineage[n][2])
        /\ versions[n][1].Schema # versions[n][2].Schema

\* C5 - A Register of kind JSON whose definition is not well-formed JSON
\* returns InvalidDefinition and leaves the schema map, the history map and
\* the id counter as they were.
RejectedRegisterChangesNothing ==
    [][(/\ ret'.op = "Register"
        /\ ret'.type = SchemaTypeJSON
        /\ ~ret'.schema.wf)
       => (/\ ~ret'.ok
           /\ ret'.err = "InvalidDefinition"
           /\ schemas' = schemas
           /\ versions' = versions
           /\ nextID' = nextID)]_vars

\* A rejected Register of a name that is registered and has history.
RejectedRegisterWitness ==
    /\ ret.op = "Register" /\ ~ret.ok
    /\ ret.type = SchemaTypeJSON /\ ~ret.schema.wf
    /\ Has(schemas, ret.name) /\ Has(versions, ret.name)

\* C8 - Compatibility is recomputed on every Register: after a successful
\* Register with no options, or with options whose compatibility is unset,
\* the current schema's mode is BACKWARD, whatever it was before.
CompatibilityRecomputed ==
    (/\ ret.op = "Register" /\ ret.ok
     /\ (ret.opts.isNil \/ ret.opts.Compatibility = ""))
    => schemas[ret.name].Compatibility = CompatibilityBackward

\* Such a Register superseding a schema whose mode was not the default.
CompatibilityRecomputedWitness ==
    /\ ret.op = "Register" /\ ret.ok /\ ret.opts.isNil
    /\ Len(lineage[ret.name]) >= 2
    /\ lineage[ret.name][Len(lineage[ret.name]) - 1].Compatibility = CompatibilityNone
    /\ schemas[ret.name].Compatibility = CompatibilityBackward

\* C9 - Id stability (the claim as stated): the current schema of a name
\* holds the id that the first registration of the name was given.
IdStableAcrossBumps ==
    \A n \in DOMAIN schemas :
        Len(lineage[n]) > 0 => schemas[n].ID = lineage[n][1].ID

\* C10 - Every successful Register takes a new id from the counter, and
\* GetByID reaches current schemas only: the id a name held before a bump is
\* NotFound, and GetByID(i) finds a schema exactly when a current schema has
\* id i, and then returns that schema whatever order the map is ranged in.
FreshIdPerRegister ==
    /\ (ret.op = "Register" /\ ret.ok) =>
           /\ schemas[ret.name].ID = issued[Len(issued)]
           /\ schemas[ret.name].ID = nextID - 1
    /\ \A n \in DOMAIN schemas :
           \A k \in 1..(Len(lineage[n]) - 1) :
               /\ lineage[n][k].ID < lineage[n][k + 1].ID
               /\ GetByID(schemas, lineage[n][k].ID) = {NotFound}
    /\ \A i \in IDRange :
           IF \E n \in DOMAIN schemas : schemas[n].ID = i
           THEN \E n \in DOMAIN schemas : GetByID(schemas, i) = {Found(schemas[n])}
           ELSE GetByID(schemas, i) = {NotFound}

\* A bump of one name while another name is registered: the old id is gone
\* and the new one is found.
FreshIdPerRegisterWitness ==
    /\ ret.op = "Register" /\ ret.ok
    /\ Len(lineage[ret.name]) = 2
    /\ Cardinality(DOMAIN schemas) = 2
    /\ GetByID(schemas, lineage[ret.name][1].ID) = {NotFound}
    /\ GetByID(schemas, lineage[ret.name][2].ID) = {Found(schemas[ret.name])}

(***************************************************************************)
(* ConcSpec: the operations as their statements, under r.mu.               *)
(*                                                                         *)
(* sync.RWMutex: Lock() first takes the writers' mutex and announces the   *)
(* writer, which stops new readers, then waits until the readers that hold *)
(* the lock have left.  RLock() enters at once when no writer is           *)
(* announced and otherwise blocks until that writer's Unlock(), which      *)
(* admits every reader blocked behind it before another writer can be      *)
(* announced.                                                              *)
(***************************************************************************)
\* The name and the inputs the concurrent callers use.
ConcNames == {"OrderEvent"}
ConcRegisterInputs ==
    { <<SchemaTypeJSON, RawOrderV1, NilOptions>>,
      <<SchemaTypeJSON, RawOrderV2, [isNil |-> FALSE, Description |-> "", Compatibility |-> CompatibilityFull]>>,
      <<SchemaTypeJSON, RawBroken, NilOptions>> }
\* The payloads of the concurrent calls of Validate.
ConcPayloads == {PayloadEmptyObject}
ConcSetCompatibilityInputs == {CompatibilityNone}
ReadCalls ==
    {[op |-> "Get", name |-> n] : n \in ConcNames}
    \cup {[op |-> "GetByID", id |-> FirstID]}
    \cup {[op |-> "GetVersion", name |-> n, version |-> 1] : n \in ConcNames}
    \cup {[op |-> "GetVersions", name |-> n] : n \in ConcNames}
    \cup {[op |-> "List"], [op |-> "Count"], [op |-> "GetStats"]}
    \cup {[op |-> "Validate", name |-> n, data |-> d] : n \in ConcNames, d \in ConcPayloads}

\* The results a read call may return on the store <<s, vs, id>>; for
\* Validate, the result of the Get it starts with (registry.go 253).
ReadResults(c, s, vs) ==
    CASE c.op = "Get" -> {Get(s, c.name)}
      [] c.op = "GetByID" -> GetByID(s, c.id)
      [] c.op = "GetVersion" -> {GetVersion(s, vs, c.name, c.version)}
      [] c.op = "GetVersions" -> {GetVersions(s, vs, c.name)}
      [] c.op = "List" -> List(s)
      [] c.op = "Count" -> {Count(s)}
      [] c.op = "GetStats" -> {GetStats(s, vs)}
      [] c.op = "Validate" -> {Get(s, c.name)}
      [] c.op = "Publish" -> {Get(s, c.name)}

\* Variant: Lock() returns while readers still hold the lock.
LockMayEnterAlways(rd) == TRUE

\* r.mu.Lock(), second half: the announced writer enters once no reader
\* holds the lock.
LockMayEnter(rd) == rd = {}

\* Variant: RLock() returns although a writer is announced.
RLockMayEnterAlways(w) == TRUE

\* r.mu.RLock(): a reader enters at once iff no writer is announced.
RLockMayEnter(w) == w = NoProc

\* Statements inside a critical section.
WriterSection ==
    {"check", "archive", "install", "incr", "del_check", "del_schemas",
     "del_versions", "set_check", "set_write", "unlock"}
ReaderSection == {"read", "runlock"}
InSection(p) ==
    IF p \in Writers THEN pc[p] \in WriterSection ELSE pc[p] \in ReaderSection

\* Whether the call will read the clock, given the store it will run on.
ReadsClock(c) ==
    CASE c.op = "Register" -> ~RegisterRejects(c.type, c.schema)
      [] c.op = "SetCompatibility" -> Has(schemas, c.name)
      [] OTHER -> FALSE

\* Whether the writer q, whose call has begun, may still read the clock: a
\* waiting writer may find any store when its turn comes.
WillReadClock(q) ==
    \/ /\ pc[q] = "wblocked"
       /\ \/ call[q].op = "SetCompatibility"
          \/ /\ call[q].op = "Register"
             /\ ~RegisterRejects(call[q].type, call[q].schema)
    \/ /\ pc[q] \in {"drain", "check", "set_check"}
       /\ ReadsClock(call[q])
    \/ pc[q] = "set_write"
\* The readings of the clock that calls already begun may still make.
PendingReadings == Cardinality({q \in Writers : WillReadClock(q)})
\* Whether a call that begins now may read the clock.
MayReadClock(c) ==
    IF muWriter = NoProc THEN ReadsClock(c)
    ELSE \/ c.op = "SetCompatibility"
         \/ /\ c.op = "Register"
            /\ ~RegisterRejects(c.type, c.schema)

\* Variant: Lock() does not wait for the writer that holds the mutex.
CallLockNoWait(p, c) ==
    /\ pc[p] = "idle"
    /\ MayReadClock(c) => clock + PendingReadings < MaxConcClock
    /\ call' = [call EXCEPT ![p] = c]
    /\ muWriter' = p
    /\ pc' = [pc EXCEPT ![p] = "drain"]
    /\ UNCHANGED <<store, clock, ret, ghost, ext, local, obs, muReaders, committed>>

\* r.mu.Lock(), first half, at the head of Register, Delete and
\* SetCompatibility: the caller takes the writers' mutex and is announced,
\* or waits for the mutex while another writer has it.
CallLock(p, c) ==
    /\ pc[p] = "idle"
    /\ MayReadClock(c) => clock + PendingReadings < MaxConcClock
    /\ call' = [call EXCEPT ![p] = c]
    /\ IF muWriter = NoProc
       THEN /\ muWriter' = p
            /\ pc' = [pc EXCEPT ![p] = "drain"]
       ELSE /\ pc' = [pc EXCEPT ![p] = "wblocked"]
            /\ UNCHANGED muWriter
    /\ UNCHANGED <<store, clock, ret, ghost, ext, local, obs, muReaders, committed>>

\* r.mu.Lock(): a waiting writer is handed the writers' mutex.
LockAcquire(p) ==
    /\ pc[p] = "wblocked"
    /\ muWriter = NoProc
    /\ muWriter' = p
    /\ pc' = [pc EXCEPT ![p] = "drain"]
    /\ UNCHANGED <<store, clock, ret, ghost, ext, call, local, obs, muReaders, committed>>

\* r.mu.Lock() returns: the critical section starts.
LockEnter(p) ==
    /\ pc[p] = "drain"
    /\ LockMayEnter(muReaders)
    /\ pc' = [pc EXCEPT ![p] =
                 CASE call[p].op = "Register" -> "check"
                   [] call[p].op = "Delete" -> "del_check"
                   [] call[p].op = "SetCompatibility" -> "set_check"]
    /\ UNCHANGED <<store, clock, ret, ghost, ext, call, local, obs, muWriter, muReaders, committed>>

\* Variant: the refusal returns without the deferred Unlock.
RegisterCheckStepNoUnlock(p) ==
    /\ pc[p] = "check"
    /\ IF RegisterRejects(call[p].type, call[p].schema)
       THEN /\ pc' = [pc EXCEPT ![p] = "idle"]
            /\ call' = [call EXCEPT ![p] = NoCall]
            /\ UNCHANGED <<clock, local>>
       ELSE /\ clock' = clock + 1
            /\ local' = [local EXCEPT ![p] = [now |-> clock + 1]]
            /\ pc' = [pc EXCEPT ![p] = "archive"]
            /\ UNCHANGED call
    /\ UNCHANGED <<store, ret, ghost, ext, obs, muWriter, muReaders, committed>>

\* Register 89-106: the JSON gate, then now := time.Now().
RegisterCheckStep(p) ==
    /\ pc[p] = "check"
    /\ IF RegisterRejects(call[p].type, call[p].schema)
       THEN /\ pc' = [pc EXCEPT ![p] = "unlock"]
            /\ UNCHANGED <<clock, local>>
       ELSE /\ clock' = clock + 1
            /\ local' = [local EXCEPT ![p] = [now |-> clock + 1]]
            /\ pc' = [pc EXCEPT ![p] = "archive"]
    /\ UNCHANGED <<store, ret, ghost, ext, call, obs, muWriter, muReaders, committed>>

\* Register 109-118: version := existing.Version + 1 and the append to r.versions[name].
RegisterArchiveStep(p) ==
    /\ pc[p] = "archive"
    /\ local' = [local EXCEPT ![p] =
                    [now |-> local[p].now, version |-> RegisterVersion(schemas, call[p].name)]]
    /\ versions' = RegisterArchive(versions, schemas, call[p].name)
    /\ pc' = [pc EXCEPT ![p] = "install"]
    /\ UNCHANGED <<schemas, nextID, clock, ret, ghost, ext, call, obs, muWriter, muReaders, committed>>

\* Register 120-130: r.schemas[name] = SchemaInfo{...}.
RegisterInstallStep(p) ==
    /\ pc[p] = "install"
    /\ LET c == call[p]
           info == [RegisterInfo(schemas, nextID, c.name, c.type, c.schema, c.opts, local[p].now)
                       EXCEPT !.Version = local[p].version]
       IN schemas' = MapPut(schemas, c.name, info)
    /\ pc' = [pc EXCEPT ![p] = "incr"]
    /\ UNCHANGED <<versions, nextID, clock, ret, ghost, ext, call, local, obs, muWriter, muReaders, committed>>

\* Register 131: r.nextID++.
RegisterIncrStep(p) ==
    /\ pc[p] = "incr"
    /\ nextID' = RegisterNextID(nextID)
    /\ pc' = [pc EXCEPT ![p] = "unlock"]
    /\ UNCHANGED <<schemas, versions, clock, ret, ghost, ext, call, local, obs, muWriter, muReaders, committed>>

\* Delete 235-237: the lookup.
DeleteCheckStep(p) ==
    /\ pc[p] = "del_check"
    /\ pc' = [pc EXCEPT ![p] =
                 IF Has(schemas, call[p].name) THEN "del_schemas" ELSE "unlock"]
    /\ UNCHANGED <<store, clock, ret, ghost, ext, call, local, obs, muWriter, muReaders, committed>>

\* Delete 239: delete(r.schemas, name).
DeleteSchemasStep(p) ==
    /\ pc[p] = "del_schemas"
    /\ schemas' = DeleteSchemas(schemas, call[p].name)
    /\ pc' = [pc EXCEPT ![p] = "del_versions"]
    /\ UNCHANGED <<versions, nextID, clock, ret, ghost, ext, call, local, obs, muWriter, muReaders, committed>>

\* Delete 240: delete(r.versions, name).
DeleteVersionsStep(p) ==
    /\ pc[p] = "del_versions"
    /\ versions' = DeleteVersions(versions, call[p].name)
    /\ pc' = [pc EXCEPT ![p] = "unlock"]
    /\ UNCHANGED <<schemas, nextID, clock, ret, ghost, ext, call, local, obs, muWriter, muReaders, committed>>

\* SetCompatibility 407-410: schema, ok := r.schemas[name].
SetCompatibilityCheckStep(p) ==
    /\ pc[p] = "set_check"
    /\ IF Has(schemas, call[p].name)
       THEN /\ local' = [local EXCEPT ![p] = [now |-> 0, schema |-> schemas[call[p].name]]]
            /\ pc' = [pc EXCEPT ![p] = "set_write"]
       ELSE /\ pc' = [pc EXCEPT ![p] = "unlock"]
            /\ UNCHANGED local
    /\ UNCHANGED <<store, clock, ret, ghost, ext, call, obs, muWriter, muReaders, committed>>

\* SetCompatibility 412-414: the copy is changed and written back.
SetCompatibilityWriteStep(p) ==
    /\ pc[p] = "set_write"
    /\ clock' = clock + 1
    /\ schemas' = MapPut(schemas, call[p].name,
                         SetCompatibilityInfo(local[p].schema, call[p].mode, clock + 1))
    /\ pc' = [pc EXCEPT ![p] = "unlock"]
    /\ UNCHANGED <<versions, nextID, ret, ghost, ext, call, local, obs, muWriter, muReaders, committed>>

\* The deferred r.mu.Unlock(): the readers blocked behind the writer are
\* admitted and the writers' mutex is released.
Unlock(p) ==
    /\ pc[p] = "unlock"
    /\ LET blocked == {r \in Readers : pc[r] = "rblocked"}
       IN /\ muReaders' = muReaders \cup blocked
          /\ pc' = [q \in Procs |->
                       IF q = p THEN "idle" ELSE IF q \in blocked THEN "read" ELSE pc[q]]
    /\ muWriter' = NoProc
    /\ call' = [call EXCEPT ![p] = NoCall]
    /\ local' = [local EXCEPT ![p] = NoLocal]
    /\ committed' = <<schemas, versions, nextID>>
    /\ UNCHANGED <<store, clock, ret, ghost, ext, obs>>

\* r.mu.RLock() at the head of a read operation.
CallRLock(p, c) ==
    /\ pc[p] = "idle"
    /\ call' = [call EXCEPT ![p] = c]
    /\ IF RLockMayEnter(muWriter)
       THEN /\ muReaders' = muReaders \cup {p}
            /\ pc' = [pc EXCEPT ![p] = "read"]
       ELSE /\ pc' = [pc EXCEPT ![p] = "rblocked"]
            /\ UNCHANGED muReaders
    /\ UNCHANGED <<store, clock, ret, ghost, ext, local, obs, muWriter, committed>>

\* The body of the read operation: its result is computed from the store.
ReadStep(p) ==
    /\ pc[p] = "read"
    /\ pc' = [pc EXCEPT ![p] = "runlock"]
    /\ \E v \in ReadResults(call[p], schemas, versions) : obs' = [obs EXCEPT ![p] = v]
    /\ UNCHANGED <<store, clock, ret, ghost, ext, call, local, muWriter, muReaders, committed>>

\* The deferred r.mu.RUnlock(); the operation returns, or, when it is the
\* Get inside Validate, Validate goes on with the copy Get returned.  In the
\* publish handler of schema-web the Get is the one inside Validate or the
\* one inside getSchemaVersion.
RUnlock(p) ==
    /\ pc[p] = "runlock"
    /\ muReaders' = muReaders \ {p}
    /\ IF call[p].op = "Validate"
       THEN /\ pc' = [pc EXCEPT ![p] = "validate"]
            /\ UNCHANGED <<call, obs>>
       ELSE IF call[p].op = "Publish"
       THEN /\ pc' = [pc EXCEPT ![p] =
                         IF call[p].phase = "validate" THEN "pub_validate" ELSE "pub_send"]
            /\ UNCHANGED <<call, obs>>
       ELSE /\ pc' = [pc EXCEPT ![p] = "idle"]
            /\ call' = [call EXCEPT ![p] = NoCall]
            /\ obs' = [obs EXCEPT ![p] = NoObs]
    /\ UNCHANGED <<store, clock, ret, ghost, ext, local, muWriter, committed>>

\* Variant: the schema is read from the store again when the payload is
\* validated, after the lock was released.
ValidateStepReadsStore(p) ==
    /\ pc[p] = "validate"
    /\ pc' = [pc EXCEPT ![p] = "vreturn"]
    /\ \E out \in Validate(schemas, call[p].name, call[p].data) :
           obs' = [obs EXCEPT ![p] = [got |-> obs[p], out |-> out]]
    /\ UNCHANGED <<store, clock, ret, ghost, ext, call, local, muWriter, muReaders, committed>>

\* Validate 254-283: the result is computed from the copy of the schema,
\* outside every lock; a failed type assertion panics.
ValidateStep(p) ==
    /\ pc[p] = "validate"
    /\ pc' = [pc EXCEPT ![p] = "vreturn"]
    /\ LET got == obs[p]
           copy == IF got.ok THEN (call[p].name :> got.val) ELSE EmptyMap
       IN \E out \in Validate(copy, call[p].name, call[p].data) :
              obs' = [obs EXCEPT ![p] = [got |-> got, out |-> out]]
    /\ UNCHANGED <<store, clock, ret, ghost, ext, call, local, muWriter, muReaders, committed>>

\* Validate ends: it returns its result, or the panic leaves the call.
ValidateReturn(p) ==
    /\ pc[p] = "vreturn"
    /\ pc' = [pc EXCEPT ![p] = "idle"]
    /\ call' = [call EXCEPT ![p] = NoCall]
    /\ obs' = [obs EXCEPT ![p] = NoObs]
    /\ UNCHANGED <<store, clock, ret, ghost, ext, local, muWriter, muReaders, committed>>

WriteCalls ==
    {[op |-> "Register", name |-> n, type |-> in[1], schema |-> in[2], opts |-> in[3]] :
        n \in ConcNames, in \in ConcRegisterInputs}
    \cup {[op |-> "Delete", name |-> n] : n \in ConcNames}
    \cup {[op |-> "SetCompatibility", name |-> n, mode |-> m] :
            n \in ConcNames, m \in ConcSetCompatibilityInputs}

ConcNext ==
    \/ \E p \in Writers, c \in WriteCalls : CallLock(p, c)
    \/ \E p \in Writers : LockAcquire(p)
    \/ \E p \in Writers : LockEnter(p)
    \/ \E p \in Writers : RegisterCheckStep(p)
    \/ \E p \in Writers : RegisterArchiveStep(p)
    \/ \E p \in Writers : RegisterInstallStep(p)
    \/ \E p \in Writers : RegisterIncrStep(p)
    \/ \E p \in Writers : DeleteCheckStep(p)
    \/ \E p \in Writers : DeleteSchemasStep(p)
    \/ \E p \in Writers : DeleteVersionsStep(p)
    \/ \E p \in Writers : SetCompatibilityCheckStep(p)
    \/ \E p \in Writers : SetCompatibilityWriteStep(p)
    \/ \E p \in Writers : Unlock(p)
    \/ \E p \in Readers, c \in ReadCalls : CallRLock(p, c)
    \/ \E p \in Readers : ReadStep(p)
    \/ \E p \in Readers : RUnlock(p)
    \/ \E p \in Readers : ValidateStep(p)
    \/ \E p \in Readers : ValidateReturn(p)

ConcSpec == Init /\ [][ConcNext]_vars

(***************************************************************************)
(* Properties of the concurrent callers under ConcSpec.                    *)
(***************************************************************************)
\* A store no mutation is half-way through: no history without a current
\* schema, every current version one more than the archived records, and
\* the id counter beyond every current id.
WholeStore(s, vs, id) ==
    /\ DOMAIN vs \subseteq DOMAIN s
    /\ \A n \in DOMAIN s : s[n].Version = Len(VersionsOf(vs, n)) + 1
    /\ \A n \in DOMAIN s : s[n].ID < id

\* C6 - Reads see whole mutations only: while a read operation is inside its
\* critical section the store is the store the last completed mutation left
\* (no Register is between its archive and its install or counter step, no
\* Delete between its two deletes), and the result the read computes is a
\* result of that operation on that committed store.
ReadersSeeCommitted ==
    \A r \in Readers :
        /\ pc[r] \in ReaderSection =>
               /\ <<schemas, versions, nextID>> = committed
               /\ WholeStore(schemas, versions, nextID)
        /\ pc[r] = "runlock" =>
               obs[r] \in ReadResults(call[r], committed[1], committed[2])

\* GetVersions has returned both versions of a re-registered name while a
\* Delete of the name is announced and waits for the reader to leave.
ReadersSeeCommittedWitness ==
    \E r \in Readers, w \in Writers :
        /\ pc[r] = "runlock"
        /\ call[r].op = "GetVersions"
        /\ obs[r].ok
        /\ Len(obs[r].val) = 2
        /\ pc[w] = "drain"
        /\ call[w].op = "Delete"

\* C7 - Readers-writer exclusion: while a mutating operation is inside its
\* critical section no other operation, reader or writer, is inside one.
ReadersWriterExclusion ==
    \A w \in Writers :
        InSection(w) =>
            /\ muWriter = w
            /\ muReaders = {}
            /\ \A q \in Procs \ {w} : ~InSection(q)

\* Two read operations are inside their critical sections at the same time,
\* and an announced writer is kept out by them.
ReadersWriterExclusionWitness ==
    /\ \A r \in Readers : InSection(r)
    /\ \E w \in Writers : pc[w] = "drain"

(***************************************************************************)
(* Further properties of the store under Spec.                             *)
(***************************************************************************)
\* C11 - createdAt of the lineage (the claim as stated): the current schema
\* of a name carries the time of the first registration of the name.
CreatedAtSetOnce ==
    \A n \in DOMAIN schemas :
        Len(lineage[n]) > 0 => schemas[n].CreatedAt = lineage[n][1].CreatedAt

\* The fields of a SchemaInfo that SetCompatibility must leave alone.
SameButModeAndUpdate(a, b) ==
    /\ a.ID = b.ID /\ a.Name = b.Name /\ a.Version = b.Version /\ a.Type = b.Type
    /\ a.Schema = b.Schema /\ a.Description = b.Description /\ a.CreatedAt = b.CreatedAt

\* C12 - SetCompatibility(name, mode) succeeds exactly on a registered name;
\* it then sets the mode and refreshes updatedAt and changes nothing else of
\* that schema, of the history, of other names or of the id counter; on an
\* unknown name it returns NotFound and the store is as before.
SetCompatibilityFrame ==
    [][ret'.op = "SetCompatibility" =>
          IF Has(schemas, ret'.name)
          THEN /\ ret'.ok
               /\ DOMAIN schemas' = DOMAIN schemas
               /\ schemas'[ret'.name].Compatibility = ret'.mode
               /\ schemas'[ret'.name].UpdatedAt > schemas[ret'.name].UpdatedAt
               /\ SameButModeAndUpdate(schemas'[ret'.name], schemas[ret'.name])
               /\ \A m \in DOMAIN schemas \ {ret'.name} : schemas'[m] = schemas[m]
               /\ versions' = versions
               /\ nextID' = nextID
          ELSE /\ ~ret'.ok
               /\ ret'.err = "NotFound"
               /\ schemas' = schemas
               /\ versions' = versions
               /\ nextID' = nextID]_vars

\* A mode change on a name that has history.
SetCompatibilityFrameWitness ==
    /\ ret.op = "SetCompatibility" /\ ret.ok
    /\ Has(versions, ret.name)
    /\ schemas[ret.name].Compatibility = ret.mode
    /\ schemas[ret.name].UpdatedAt > schemas[ret.name].CreatedAt
    /\ schemas[ret.name].Version = 2

\* C13 - For every registered name the archived versions are strictly below
\* the current version, strictly increasing in list order, and together with
\* the current version exactly 1..current.
HistoryVersionsContiguous ==
    \A n \in DOMAIN schemas :
        LET hist == VersionsOf(versions, n)
            cur == schemas[n].Version
        IN /\ \A k \in 1..Len(hist) : hist[k].Version < cur
           /\ \A j, k \in 1..Len(hist) : j < k => hist[j].Version < hist[k].Version
           /\ {hist[k].Version : k \in 1..Len(hist)} \cup {cur} = 1..cur

\* A name with two archived versions below its current one.
HistoryVersionsContiguousWitness ==
    \E n \in DOMAIN schemas :
        /\ Len(VersionsOf(versions, n)) = 2
        /\ schemas[n].Version = 3

\* C14 - GetVersion(name, v) on a registered name with current version c
\* succeeds exactly for 1 <= v <= c and returns version v with the
\* definition and creation time of the v-th schema installed for the name
\* since it was created; for other v and for unknown names it is NotFound.
GetVersionReturnsLineage ==
    \A n \in Names, v \in VersionRange :
        LET r == GetVersion(schemas, versions, n, v)
        IN IF Has(schemas, n)
           THEN /\ r.ok <=> (1 <= v /\ v <= schemas[n].Version)
                /\ r.ok => /\ r.val.Version = v
                           /\ r.val.Schema = lineage[n][v].Schema
                           /\ r.val.CreatedAt = lineage[n][v].CreatedAt
           ELSE r = NotFound

\* Version 1 of a name at version 3 is found and differs from version 2.
GetVersionReturnsLineageWitness ==
    \E n \in DOMAIN schemas :
        /\ schemas[n].Version = 3
        /\ GetVersion(schemas, versions, n, 1).ok
        /\ GetVersion(schemas, versions, n, 3).ok
        /\ GetVersion(schemas, versions, n, 1).val.Schema
              # GetVersion(schemas, versions, n, 2).val.Schema
        /\ ~GetVersion(schemas, versions, n, 4).ok

\* C15 - GetVersions(name) on a registered name is the history in archive
\* order followed by one entry for the current schema: its length is the
\* history length plus one and its last entry has the current version,
\* definition and creation time; on an unknown name it is NotFound.
GetVersionsHistoryThenCurrent ==
    \A n \in Names :
        LET r == GetVersions(schemas, versions, n)
            hist == VersionsOf(versions, n)
        IN IF Has(schemas, n)
           THEN /\ r.ok
                /\ Len(r.val) = Len(hist) + 1
                /\ \A k \in 1..Len(hist) : r.val[k] = hist[k]
                /\ r.val[Len(r.val)].Version = schemas[n].Version
                /\ r.val[Len(r.val)].Schema = schemas[n].Schema
                /\ r.val[Len(r.val)].CreatedAt = schemas[n].CreatedAt
           ELSE r = NotFound

\* Three entries for a name with two archived versions.
GetVersionsHistoryThenCurrentWitness ==
    \E n \in DOMAIN schemas :
        /\ Len(VersionsOf(versions, n)) = 2
        /\ Len(GetVersions(schemas, versions, n).val) = 3
        /\ GetVersions(schemas, versions, n).val[3].Version = 3

\* C16 - List() returns the current schemas, one per registered name and
\* nothing else, in strictly ascending id order, whatever order the map is
\* ranged in; the name registered last is at the end of the list.
ListSortedByID ==
    /\ Cardinality(List(schemas)) = 1
    /\ \A l \in List(schemas) :
           /\ Len(l) = Cardinality(DOMAIN schemas)
           /\ {l[i] : i \in 1..Len(l)} = {schemas[n] : n \in DOMAIN schemas}
           /\ \A i, j \in 1..Len(l) : i < j => l[i].ID < l[j].ID
           /\ (ret.op = "Register" /\ ret.ok) => l[Len(l)].Name = ret.name

\* A name that was first in the list is re-registered and is now last.
ListSortedByIDWitness ==
    /\ ret.op = "Register" /\ ret.ok
    /\ Len(lineage[ret.name]) = 2
    /\ \E m \in DOMAIN schemas :
          /\ m # ret.name
          /\ lineage[ret.name][1].ID < schemas[m].ID
          /\ \A l \in List(schemas) : l[1].Name = m /\ l[2].Name = ret.name

RECURSIVE SumOver(_, _)
SumOver(f, S) ==
    IF S = {} THEN 0
    ELSE LET x == CHOOSE y \in S : TRUE IN f[x] + SumOver(f, S \ {x})

\* C17 - GetStats(): total_schemas is Count(), total_versions is the number
\* of schemas installed for the names now registered (history plus current;
\* deleted names count nothing), by_type gives for each kind the number of
\* current schemas of that kind, and the by_type counts sum to total_schemas.
StatsMatchStore ==
    LET st == GetStats(schemas, versions)
    IN /\ st.total_schemas = Count(schemas)
       /\ st.total_schemas = Cardinality(DOMAIN schemas)
       /\ st.total_versions = SumOver([n \in Names |-> Len(lineage[n])], Names)
       /\ \A t \in SchemaTypes :
              (IF t \in DOMAIN st.by_type THEN st.by_type[t] ELSE 0)
                 = Cardinality({n \in DOMAIN schemas : schemas[n].Type = t})
       /\ DOMAIN st.by_type \subseteq SchemaTypes
       /\ SumOver(st.by_type, DOMAIN st.by_type) = st.total_schemas

\* One name at version 2 of one kind after the other name, of another kind,
\* was deleted; its versions are not counted.
StatsMatchStoreWitness ==
    /\ deleted # {}
    /\ GetStats(schemas, versions).total_schemas = 1
    /\ GetStats(schemas, versions).total_versions = 2
    /\ clock = 3

(***************************************************************************)
(* Specification of validation: the registry starts as main leaves it,     *)
(* seeded by initDefaultSchemas; schemas of every kind are registered and  *)
(* deleted, and Validate is called with every payload on the seeded names  *)
(* and on a name that is never registered.                                 *)
(***************************************************************************)
\* initDefaultSchemas (main.go 115-128): the seeds in the order of the
\* calls, each with its definition and its description.
Seeds ==
    << <<"OrderEvent", OrderEventSchema, "order events">>,
       <<"NotificationEvent", NotificationEventSchema, "notification events">>,
       <<"UserEvent", UserEventSchema, "user events">>,
       <<"PaymentEvent", PaymentEventSchema, "payment events">> >>
SeedNames == {Seeds[i][1] : i \in 1..Len(Seeds)}
SeedIndex(name) == CHOOSE i \in 1..Len(Seeds) : Seeds[i][1] = name
\* The SchemaInfo the i-th call of the bootstrap installs; the bootstrap's
\* readings of the clock are the origin of time.
SeedInfo(i) ==
    RegisterInfo(EmptyMap, FirstID + i - 1, Seeds[i][1], SchemaTypeJSON, Seeds[i][2],
                 [isNil |-> FALSE, Description |-> Seeds[i][3], Compatibility |-> ""], 0)

\* The state after NewSchemaRegistry and initDefaultSchemas (main.go 55-56).
ValidateInit ==
    /\ schemas = [n \in SeedNames |-> SeedInfo(SeedIndex(n))]
    /\ versions = EmptyMap
    /\ nextID = FirstID + Len(Seeds)
    /\ clock = 0
    /\ ret = [op |-> "initDefaultSchemas", ok |-> TRUE]
    /\ lineage = [n \in Names |-> <<SeedInfo(SeedIndex(n))>>]
    /\ issued = [i \in 1..Len(Seeds) |-> FirstID + i - 1]
    /\ deleted = {}
    /\ pc = [p \in Procs |-> "idle"]
    /\ call = [p \in Procs |-> NoCall]
    /\ local = [p \in Procs |-> NoLocal]
    /\ obs = [p \in Readers |-> NoObs]
    /\ muWriter = NoProc
    /\ muReaders = {}
    /\ committed = <<EmptyMap, EmptyMap, FirstID>>
    /\ ExtInit

ValidateRegisterNames == {"OrderEvent", "PaymentEvent"}
ValidateNames == {"OrderEvent", "PaymentEvent", "UnknownSchema"}
\* The registrations: the name, the kind and the definition.
ValidateRegisterInputs ==
    { <<"OrderEvent", SchemaTypeJSON, OrderEventSchema>>,
      <<"OrderEvent", SchemaTypeJSON, ArraySchema>>,
      <<"OrderEvent", SchemaTypeJSON, NumberInRequiredSchema>>,
      <<"OrderEvent", SchemaTypeJSON, RawBroken>>,
      <<"OrderEvent", SchemaTypeProtobuf, OrderEventSchema>>,
      <<"OrderEvent", SchemaTypeAvro, RawBroken>>,
      <<"OrderEvent", SchemaTypeJSON, LooseSchema>>,
      <<"OrderEvent", SchemaTypeJSON, NullSchema>>,
      <<"OrderEvent", SchemaTypeJSON, StringSchema>>,
      <<"OrderEvent", SchemaTypeJSON, NumberPropertySchema>>,
      <<"OrderEvent", SchemaTypeJSON, NumberInEnumSchema>>,
      <<"PaymentEvent", SchemaTypeJSON, PaymentEventSchema>> }

\* The calls of Validate: every payload on OrderEvent, and the payloads of
\* the demonstration on the other names.
ValidateInputs ==
    ({"OrderEvent"} \X Payloads)
        \cup ({"PaymentEvent"} \X {PayloadPaymentOK, PayloadOrderOK, PayloadNull})
        \cup ({"UnknownSchema"} \X {PayloadOrderOK, PayloadEmptyObject, PayloadBroken})

\* A call of Validate (registry.go 252-284): it reads the store under the
\* read lock taken by Get and writes nothing.
ValidateCall(name, data) ==
    /\ \E out \in Validate(schemas, name, data) :
           ret' = [op |-> "Validate", ok |-> ~out.panic, name |-> name,
                   data |-> data, out |-> out]
    /\ UNCHANGED <<store, clock, ghost>>

ValidateNext ==
    \/ \E in \in ValidateRegisterInputs :
           /\ clock < MaxValidateClock
           /\ Register(in[1], in[2], in[3], NilOptions)
           /\ UNCHANGED <<conc, ext>>
    \/ \E n \in ValidateRegisterNames : Delete(n) /\ UNCHANGED <<conc, ext>>
    \/ \E in \in ValidateInputs : ValidateCall(in[1], in[2]) /\ UNCHANGED <<conc, ext>>

ValidateSpec == ValidateInit /\ [][ValidateNext]_vars

\* The state follows a call of Validate.
Validated == ret.op = "Validate"


(***************************************************************************)
(* Properties of Validate under ValidateSpec.                              *)
(***************************************************************************)

\* C18: Validate on a name that has no current schema, because it was never
\* registered or because it was deleted, returns a result (it does not
\* panic) with Valid false and exactly one error, the schema-not-found
\* error of that name; the step leaves the store as it was, and every
\* payload gets this same outcome.
ValidateUnknownName ==
    [][ (ret'.op = "Validate" /\ ~Has(schemas, ret'.name)) =>
            /\ store' = store
            /\ ~ret'.out.panic
            /\ ret'.out.result.Valid = FALSE
            /\ Len(ret'.out.result.Errors) = 1
            /\ ret'.out.result.Errors[1] = ErrSchemaNotFound(ret'.name)
            /\ \A d \in Payloads : Validate(schemas, ret'.name, d) = {ret'.out}
      ]_vars

\* C18 witness: Validate was called with a complete order on a name whose
\* schema had been deleted.
ValidateUnknownNameWitness ==
    /\ Validated
    /\ ret.name \in deleted
    /\ ~Has(schemas, ret.name)
    /\ ret.data = PayloadOrderOK
    /\ ~ret.out.panic
    /\ ~ret.out.result.Valid

\* C19: when the current schema of the name is of kind PROTOBUF or AVRO,
\* Validate returns Valid false with exactly one error, the one that says
\* the kind is not supported, and the same result for every payload and
\* whatever the definition is.
ValidateUnsupportedKind ==
    (/\ Validated
     /\ Has(schemas, ret.name)
     /\ schemas[ret.name].Type \in {SchemaTypeProtobuf, SchemaTypeAvro}) =>
        /\ ~ret.out.panic
        /\ ret.out.result.Valid = FALSE
        /\ Len(ret.out.result.Errors) = 1
        /\ ret.out.result.Errors[1] =
               (IF schemas[ret.name].Type = SchemaTypeProtobuf
                THEN ErrProtobufUnsupported ELSE ErrAvroUnsupported)
        /\ ret.out.result.Message = MsgUnsupportedType
        /\ \A d \in Payloads : Validate(schemas, ret.name, d) = {ret.out}

\* C19 witness: a complete order was validated against an AVRO schema whose
\* definition is not even well-formed JSON.
ValidateUnsupportedKindWitness ==
    /\ Validated
    /\ Has(schemas, ret.name)
    /\ schemas[ret.name].Type = SchemaTypeAvro
    /\ ~schemas[ret.name].Schema.wf
    /\ ret.data = PayloadOrderOK
    /\ ~ret.out.result.Valid

\* The call that produced ret reached the field checks: the schema is of
\* kind JSON and both the payload and the definition decoded into a map.
FieldCheckPath ==
    /\ Validated
    /\ ~ret.out.panic
    /\ Has(schemas, ret.name)
    /\ schemas[ret.name].Type = SchemaTypeJSON
    /\ ~JSONUnmarshalMap(ret.data).err
    /\ ~JSONUnmarshalMap(schemas[ret.name].Schema).err

\* The number of entries of the schema's required array that are not keys
\* of the payload.
MissingRequiredCount(schemaMap, dataMap) ==
    IF Has(schemaMap, "required") /\ schemaMap["required"].t = "arr"
    THEN Cardinality({i \in 1..Len(schemaMap["required"].v) :
                          ~Has(dataMap, schemaMap["required"].v[i].v)})
    ELSE 0

\* The number of keys of the payload whose property check fails.
FailingFieldCount(schemaMap, dataMap) ==
    IF Has(schemaMap, "properties") /\ schemaMap["properties"].t = "obj"
    THEN LET properties == schemaMap["properties"].v
         IN Cardinality({k \in DOMAIN dataMap :
                /\ Has(properties, k)
                /\ validateField(k, dataMap[k], properties[k].v).errs # <<>>})
    ELSE 0

\* C20: every result Validate returns has an empty Errors exactly when
\* Valid is true; and a result of the field checks has as many errors as
\* there are missing required fields plus payload fields failing their
\* property check, a failure's Message carrying that number.
ErrorsEmptyIffValid ==
    (Validated /\ ~ret.out.panic) =>
        LET r == ret.out.result
        IN /\ (r.Errors = <<>>) <=> r.Valid
           /\ FieldCheckPath =>
                  LET dataMap == JSONUnmarshalMap(ret.data).value
                      schemaMap == JSONUnmarshalMap(schemas[ret.name].Schema).value
                  IN /\ Len(r.Errors) = MissingRequiredCount(schemaMap, dataMap)
                                          + FailingFieldCount(schemaMap, dataMap)
                     /\ ~r.Valid => r.Message = MsgErrorCount(Len(r.Errors))
                     /\ r.Valid => r.Message = MsgSucceeded

\* C20 witness: the order with two required fields missing, a negative
\* amount and an unknown status was validated against OrderEventSchema and
\* got four errors.
ErrorsEmptyIffValidWitness ==
    /\ FieldCheckPath
    /\ schemas[ret.name].Schema = OrderEventSchema
    /\ ret.data = PayloadOrderBad
    /\ ~ret.out.result.Valid
    /\ Len(ret.out.result.Errors) = 4
    /\ ret.out.result.Message = MsgErrorCount(4)


\* The schema of the call that produced ret, and its payload, as maps.
RetSchemaMap == JSONUnmarshalMap(schemas[ret.name].Schema).value
RetDataMap == JSONUnmarshalMap(ret.data).value

\* The errors for the entries of the required array req that are not keys
\* of dataMap, in the order of the array.
MissingRequiredErrors(req, dataMap) ==
    LET Absent(e) == ~Has(dataMap, e.v)
        absent == SelectSeq(req, Absent)
    IN [i \in 1..Len(absent) |-> ErrMissingRequired(absent[i].v)]

\* C21: for a JSON schema and an object payload the result starts with one
\* missing-required-field error for each entry of the required array that
\* is not a key of the payload, in the order of the array; a key that is
\* present, even with the value null, gets none; every other error comes
\* after them.
RequiredFieldCheck ==
    (/\ FieldCheckPath
     /\ ret.data.val.t = "obj"
     /\ Has(RetSchemaMap, "required")
     /\ RetSchemaMap["required"].t = "arr") =>
        LET missing == MissingRequiredErrors(RetSchemaMap["required"].v, RetDataMap)
            errors == ret.out.result.Errors
        IN /\ Len(errors) >= Len(missing)
           /\ SubSeq(errors, 1, Len(missing)) = missing
           /\ \A i \in (Len(missing) + 1)..Len(errors) :
                  errors[i][1] # "missing required field"

\* C21 witness: an order whose order_id is null and that lacks amount,
\* status and created_at got the three missing-field errors in that order
\* and then the type error of order_id.
RequiredFieldCheckWitness ==
    /\ FieldCheckPath
    /\ schemas[ret.name].Schema = OrderEventSchema
    /\ ret.data = PayloadNullField
    /\ ret.out.result.Errors =
           <<ErrMissingRequired("amount"), ErrMissingRequired("status"),
             ErrMissingRequired("created_at"), ErrWrongType("order_id", "string")>>


\* The properties of the schema of the call that produced ret.
RetHasProperties ==
    Has(RetSchemaMap, "properties") /\ RetSchemaMap["properties"].t = "obj"
RetProperties == RetSchemaMap["properties"].v

\* The keys of the payload that the schema declares with the type given.
RetKeysOfType(type) ==
    {k \in DOMAIN RetDataMap :
        /\ Has(RetProperties, k)
        /\ RetProperties[k].t = "obj"
        /\ Has(RetProperties[k].v, "type")
        /\ RetProperties[k].v["type"] = JStr(type)}

\* The errors of the result that name the field k.
ErrorsAbout(k) ==
    LET Names_k(e) == Len(e) >= 2 /\ e[2] = k
    IN SelectSeq(ret.out.result.Errors, Names_k)

\* The strings an enum array holds.
EnumMembers(enum) == {enum[i].v : i \in {j \in 1..Len(enum) : enum[j].t = "str"}}

\* C22: for a payload key declared of type string, a value that is not a
\* string gets exactly one type error and nothing else; a string gets no
\* error when the property has no enum or when the string is, letter for
\* letter, a member of the enum; otherwise it gets exactly one
\* value-not-allowed error that names the field and the value.
StringPropertyCheck ==
    (FieldCheckPath /\ RetHasProperties) =>
        \A k \in RetKeysOfType("string") :
            LET value == RetDataMap[k]
                propDef == RetProperties[k].v
                hasEnum == Has(propDef, "enum") /\ propDef["enum"].t = "arr"
            IN ErrorsAbout(k) =
                   IF value.t # "str" THEN <<ErrWrongType(k, "string")>>
                   ELSE IF ~hasEnum \/ value.v \in EnumMembers(propDef["enum"].v) THEN <<>>
                   ELSE <<ErrNotAllowed(k, value.v)>>

\* C22 witness: the status "CREATED", which differs from the member
\* "created" only by case, was refused by OrderEventSchema.
StringPropertyCheckWitness ==
    /\ FieldCheckPath
    /\ schemas[ret.name].Schema = OrderEventSchema
    /\ ret.data = PayloadStatusUpper
    /\ ErrorsAbout("status") = <<ErrNotAllowed("status", "CREATED")>>

\* C23: for a payload key declared of type number, a value that is not a
\* number gets exactly one type error; a number gets no error when the
\* property has no minimum or when it is at least the minimum, the minimum
\* itself included, and exactly one must-be-at-least error when it is below.
NumberPropertyCheck ==
    (FieldCheckPath /\ RetHasProperties) =>
        \A k \in RetKeysOfType("number") :
            LET value == RetDataMap[k]
                propDef == RetProperties[k].v
                hasMin == Has(propDef, "minimum") /\ propDef["minimum"].t = "num"
            IN ErrorsAbout(k) =
                   IF value.t # "num" THEN <<ErrWrongType(k, "number")>>
                   ELSE IF ~hasMin \/ value.v >= propDef["minimum"].v THEN <<>>
                   ELSE <<ErrBelowMinimum(k, propDef["minimum"].v)>>

\* C23 witness: the amount 0, equal to the minimum of OrderEventSchema, was
\* accepted.
NumberPropertyCheckWitness ==
    /\ FieldCheckPath
    /\ schemas[ret.name].Schema = OrderEventSchema
    /\ ret.data = PayloadAmountZero
    /\ ErrorsAbout("amount") = <<>>
    /\ ~ret.out.result.Valid

\* The type a property definition declares, "" when it declares none.
DeclaredType(propDef) ==
    IF Has(propDef, "type") /\ propDef["type"].t = "str" THEN propDef["type"].v ELSE ""
\* The tag of the JSON values a structural type admits.
TagOfType(type) ==
    CASE type = "boolean" -> "bool" [] type = "object" -> "obj" [] type = "array" -> "arr"

\* C24: every error of the property check names a key that the payload and
\* the properties have in common; a property whose type is unknown or
\* missing accepts every value; a boolean, object or array property gets a
\* type error exactly when the value itself is not of that type, whatever
\* the value contains.
PropertyCheckScope ==
    (FieldCheckPath /\ RetHasProperties) =>
        LET errors == ret.out.result.Errors
        IN /\ \A i \in 1..Len(errors) :
                  errors[i][1] # "missing required field" =>
                      errors[i][2] \in (DOMAIN RetDataMap) \cap (DOMAIN RetProperties)
           /\ \A k \in (DOMAIN RetDataMap) \ (DOMAIN RetProperties) : ErrorsAbout(k) = <<>>
           /\ \A k \in (DOMAIN RetDataMap) \cap (DOMAIN RetProperties) :
                  LET type == DeclaredType(RetProperties[k].v)
                  IN /\ type \notin {"string", "number", "boolean", "object", "array"} =>
                            ErrorsAbout(k) = <<>>
                     /\ type \in {"boolean", "object", "array"} =>
                            ErrorsAbout(k) =
                                IF RetDataMap[k].t = TagOfType(type) THEN <<>>
                                ELSE <<ErrWrongType(k, type)>>

\* C24 witness: a payload with a key the schema does not list, a value for
\* a property of the unknown type "integer" and a value for a property
\* without a type passed LooseSchema.
PropertyCheckScopeWitness ==
    /\ FieldCheckPath
    /\ schemas[ret.name].Schema = LooseSchema
    /\ ret.data = PayloadLooseOdd
    /\ ret.out.result.Valid


\* The name still has the schema the bootstrap gave it.
SeedCurrent(name) ==
    /\ name \in SeedNames
    /\ Has(schemas, name)
    /\ schemas[name] = SeedInfo(SeedIndex(name))

\* The result that reports success.
ValidResult == Returned(ValidationResult(TRUE, <<>>, MsgSucceeded))

\* Orders with all five required fields, a non-negative amount and a status
\* of the enum; payments with the five required fields, a non-negative
\* amount, the currency KRW and the status completed, and neither method
\* nor created_at.
GoodOrders ==
    {RawJSON("good order",
         JObj( "order_id" :> JStr("ORD-1") @@ "customer_id" :> JStr("C-1")
            @@ "amount" :> JNum(amount) @@ "status" :> JStr(status)
            @@ "created_at" :> JStr("2024-01-01T00:00:00Z"))) :
        amount \in {0, 100},
        status \in {"created", "paid", "shipped", "delivered", "cancelled"}}
GoodPayments ==
    {RawJSON("good payment",
         JObj( "payment_id" :> JStr("P1") @@ "order_id" :> JStr("O1") @@ "amount" :> JNum(amount)
            @@ "currency" :> JStr("KRW") @@ "status" :> JStr("completed"))) :
        amount \in {0, 500}}

\* C25: while OrderEvent and PaymentEvent have their seed schemas, the
\* complete order and the complete payment are found valid, and so is every
\* order and every payment of the shape described.
SeedAcceptsGoodPayloads ==
    /\ (/\ Validated /\ ret.name = "OrderEvent" /\ SeedCurrent("OrderEvent")
        /\ ret.data = PayloadOrderOK) =>
            /\ ret.out = ValidResult
            /\ \A p \in GoodOrders : Validate(schemas, "OrderEvent", p) = {ValidResult}
    /\ (/\ Validated /\ ret.name = "PaymentEvent" /\ SeedCurrent("PaymentEvent")
        /\ ret.data = PayloadPaymentOK) =>
            /\ ret.out = ValidResult
            /\ \A p \in GoodPayments : Validate(schemas, "PaymentEvent", p) = {ValidResult}

\* C25 witness: with both seeds in place the payment without method and
\* created_at was validated against PaymentEvent and passed.
SeedAcceptsGoodPayloadsWitness ==
    /\ Validated
    /\ ret.name = "PaymentEvent"
    /\ ret.data = PayloadPaymentOK
    /\ SeedCurrent("OrderEvent")
    /\ SeedCurrent("PaymentEvent")
    /\ ret.out.result.Valid

\* The errors of the result, as a set.
ErrorSet == {ret.out.result.Errors[i] : i \in 1..Len(ret.out.result.Errors)}

\* C26: while OrderEvent has its seed schema, the order ORD-2 with amount
\* -5, status "bogus" and no customer_id is refused, and the one result
\* holds the missing-field error of customer_id, the value-not-allowed
\* error of status and the minimum error of amount.
SeedReportsAllViolations ==
    (/\ Validated /\ ret.name = "OrderEvent" /\ SeedCurrent("OrderEvent")
     /\ ret.data = PayloadOrderBad) =>
        /\ ~ret.out.panic
        /\ ret.out.result.Valid = FALSE
        /\ {ErrMissingRequired("customer_id"), ErrNotAllowed("status", "bogus"),
            ErrBelowMinimum("amount", 0)} \subseteq ErrorSet

\* C26 witness: the order ORD-2 was validated against the seed and the
\* result holds the three errors and the missing-field error of created_at.
SeedReportsAllViolationsWitness ==
    /\ Validated
    /\ ret.name = "OrderEvent"
    /\ SeedCurrent("OrderEvent")
    /\ ret.data = PayloadOrderBad
    /\ ErrorSet = {ErrMissingRequired("customer_id"), ErrMissingRequired("created_at"),
                   ErrNotAllowed("status", "bogus"), ErrBelowMinimum("amount", 0)}


\* The call that produced ret found a current schema of kind JSON.
ValidatedAgainstJSON ==
    /\ Validated
    /\ Has(schemas, ret.name)
    /\ schemas[ret.name].Type = SchemaTypeJSON

\* The raw text is a JSON object.
IsObject(raw) == raw.wf /\ raw.val.t = "obj"

\* The result with the single error given.
SingleError(err, message) == Returned(ValidationResult(FALSE, <<err>>, message))

\* C27, as claimed: against a JSON schema a payload that is malformed text
\* or a JSON value other than an object gets valid=false with exactly one
\* malformed-payload error and no field check.  The payload null refutes
\* it: it decodes into a nil map without error and the field checks run.
MalformedPayloadRejected ==
    (ValidatedAgainstJSON /\ ~IsObject(ret.data)) =>
        ret.out = SingleError(ErrPayloadParse, MsgMalformedPayload)

\* C28, as claimed: against a registered JSON definition that is well-formed
\* but not an object, an object payload gets valid=false with exactly one
\* malformed-schema error, and a payload whose own parse fails (malformed
\* text, or a value that is neither an object nor the null of C27) gets the
\* malformed-payload error.  The definition null refutes it: it decodes
\* into a nil map without error and every object payload is found valid.
MalformedSchemaRejected ==
    (/\ ValidatedAgainstJSON
     /\ schemas[ret.name].Schema.wf
     /\ ~IsObject(schemas[ret.name].Schema)) =>
        /\ IsObject(ret.data) =>
               ret.out = SingleError(ErrSchemaParse, MsgMalformedSchema)
        /\ (~ret.data.wf \/ ret.data.val.t \notin {"obj", "null"}) =>
               ret.out = SingleError(ErrPayloadParse, MsgMalformedPayload)

\* C29, as claimed: Validate returns a ValidationResult for every schema
\* Register accepted and every payload.  A required array with a number, a
\* property that is not an object and an enum with a number refute it: the
\* type assertions on them panic.
ValidateNeverPanics == Validated => ~ret.out.panic


(***************************************************************************)
(* Specification of termination: the statement-level operations of         *)
(* ConcSpec under the fairness the Go runtime gives.  The scheduler is     *)
(* preemptive, so a goroutine that can take its next step takes it (weak   *)
(* fairness of the steps of each caller); sync.Mutex hands the mutex to a  *)
(* waiter that has waited long (starvation mode), so a writer that waits   *)
(* for the writers' mutex gets it (strong fairness of LockAcquire).        *)
(* Whether a caller starts another call is left open.                      *)
(***************************************************************************)
\* The calls of each caller: one writer registers (a definition that is
\* accepted, one that is refused and one on which Validate panics), the
\* other deletes and sets the mode; one reader calls Get, the other Validate.
FairCalls(p) ==
    CASE p = "w1" ->
            {[op |-> "Register", name |-> n, type |-> SchemaTypeJSON, schema |-> d,
              opts |-> NilOptions] :
                n \in ConcNames, d \in {RawOrderV1, RawBroken, NumberInRequiredSchema}}
      [] p = "w2" ->
            {[op |-> "Delete", name |-> n] : n \in ConcNames}
            \cup {[op |-> "SetCompatibility", name |-> n, mode |-> m] :
                    n \in ConcNames, m \in ConcSetCompatibilityInputs}
      [] p = "r1" -> {[op |-> "Get", name |-> n] : n \in ConcNames}
      [] p = "r2" ->
            {[op |-> "Validate", name |-> n, data |-> d] : n \in ConcNames, d \in ConcPayloads}

\* The steps of a writer whose call has begun and that has the mutex.
WriterStep(p) ==
    \/ LockEnter(p)
    \/ RegisterCheckStep(p)
    \/ RegisterArchiveStep(p)
    \/ RegisterInstallStep(p)
    \/ RegisterIncrStep(p)
    \/ DeleteCheckStep(p)
    \/ DeleteSchemasStep(p)
    \/ DeleteVersionsStep(p)
    \/ SetCompatibilityCheckStep(p)
    \/ SetCompatibilityWriteStep(p)
    \/ Unlock(p)
\* The steps of a reader whose call has begun and that is not blocked.
ReaderStep(p) ==
    \/ ReadStep(p)
    \/ RUnlock(p)
    \/ ValidateStep(p)
    \/ ValidateReturn(p)

FairNext ==
    \/ \E p \in Writers : \E c \in FairCalls(p) : CallLock(p, c)
    \/ \E p \in Writers : LockAcquire(p)
    \/ \E p \in Writers : WriterStep(p)
    \/ \E p \in Readers : \E c \in FairCalls(p) : CallRLock(p, c)
    \/ \E p \in Readers : ReaderStep(p)

Fairness ==
    /\ \A p \in Writers : WF_vars(WriterStep(p)) /\ SF_vars(LockAcquire(p))
    /\ \A p \in Readers : WF_vars(ReaderStep(p))

FairSpec == Init /\ [][FairNext]_vars /\ Fairness

\* The locks the caller p holds or has been promised.
HoldsLock(p) == muWriter = p \/ p \in muReaders

\* C30: every operation that has started ends (it returns, or for Validate
\* on a schema of C29 it panics), whatever the other callers do; a caller
\* that is not inside an operation holds no lock, so every return path,
\* the error returns included, has released it; Validate holds no lock
\* once its inner Get has returned; and whenever some operation is under
\* way some caller can take a step.
OperationsTerminate ==
    /\ [](\A p \in Procs : pc[p] = "idle" => ~HoldsLock(p))
    /\ [](\A p \in Readers : pc[p] \in {"validate", "vreturn"} => ~HoldsLock(p))
    /\ []((\E p \in Procs : pc[p] # "idle") =>
              \E p \in Procs : ENABLED (IF p \in Writers
                                        THEN WriterStep(p) \/ LockAcquire(p)
                                        ELSE ReaderStep(p)))
    /\ \A p \in Procs : (pc[p] # "idle") ~> (pc[p] = "idle")

\* C30 witness: a Register waits for the writers' mutex held by a Delete
\* that waits for a reader to leave, while the other reader is blocked
\* behind the announced Delete.
OperationsTerminateWitness ==
    \E w1 \in Writers, w2 \in Writers, r1 \in Readers, r2 \in Readers :
        /\ pc[w1] = "wblocked" /\ call[w1].op = "Register"
        /\ pc[w2] = "drain" /\ call[w2].op = "Delete"
        /\ pc[r1] \in ReaderSection
        /\ pc[r2] = "rblocked"


(***************************************************************************)
(* The store as a whole under Spec: history against versions, a name       *)
(* registered again after its Delete, and what an operation leaves alone.  *)
(***************************************************************************)
\* C34 - No orphan history, and history matches the version: every name with
\* a non-empty history has a current schema, the current version of every
\* registered name is the length of its history plus 1, and so GetStats'
\* total_versions is the sum of the current versions.
HistoryMatchesVersion ==
    /\ \A n \in DOMAIN versions : Len(versions[n]) > 0 => Has(schemas, n)
    /\ \A n \in DOMAIN schemas : schemas[n].Version = Len(VersionsOf(versions, n)) + 1
    /\ GetStats(schemas, versions).total_versions
           = SumOver([n \in DOMAIN schemas |-> schemas[n].Version], DOMAIN schemas)

\* Two names registered, one of them with an archived version.
HistoryMatchesVersionWitness ==
    /\ Cardinality(DOMAIN schemas) = 2
    /\ \E n \in DOMAIN versions : Len(versions[n]) = 1 /\ schemas[n].Version = 2
    /\ \E n \in DOMAIN schemas : ~Has(versions, n) /\ schemas[n].Version = 1
    /\ GetStats(schemas, versions).total_versions = 3

\* C35 - A Register of a name that was deleted and not registered since
\* starts a new lineage: the new current schema has version 1, GetVersions
\* has exactly one entry, GetVersion finds the new schema at version 1 and
\* nothing at any other version, and the new id is greater than every id
\* issued before.
RegisterAfterDelete ==
    [][(/\ ret'.op = "Register" /\ ret'.ok
        /\ ret'.name \in deleted)
       => LET n == ret'.name
          IN /\ schemas'[n].Version = 1
             /\ Len(GetVersions(schemas', versions', n).val) = 1
             /\ GetVersion(schemas', versions', n, 1) = Found(ArchiveRecord(schemas'[n]))
             /\ schemas'[n].CreatedAt = clock'
             /\ \A v \in VersionRange \ {1} :
                    GetVersion(schemas', versions', n, v) = NotFound
             /\ \A i \in 1..Len(issued) : issued[i] < schemas'[n].ID]_vars

\* The one name ever registered took three ids and is at version 1 again:
\* it was registered, bumped or not, deleted and registered anew.
RegisterAfterDeleteWitness ==
    /\ ret.op = "Register" /\ ret.ok
    /\ Len(issued) = 3
    /\ DOMAIN schemas = {ret.name}
    /\ deleted = {}
    /\ \A m \in Names \ {ret.name} : Len(lineage[m]) = 0
    /\ Len(lineage[ret.name]) = 1
    /\ schemas[ret.name].ID = issued[3]

\* C36 - Register, Delete and SetCompatibility on a name leave every other
\* name untouched (its current schema and its history); Delete and
\* SetCompatibility leave the id counter unchanged; a Delete of an unknown
\* name changes nothing in the store.
OtherNamesUntouched ==
    [][/\ \A m \in Names \ {ret'.name} :
              /\ Has(schemas', m) = Has(schemas, m)
              /\ Has(schemas, m) => Get(schemas', m) = Get(schemas, m)
              /\ Has(versions', m) = Has(versions, m)
              /\ VersionsOf(versions', m) = VersionsOf(versions, m)
       /\ ret'.op \in {"Delete", "SetCompatibility"} => nextID' = nextID
       /\ (ret'.op = "Delete" /\ ~ret'.ok) =>
              /\ schemas' = schemas
              /\ versions' = versions
              /\ nextID' = nextID]_vars

\* A Delete of one name while the other name is registered and has history.
OtherNamesUntouchedWitness ==
    /\ ret.op = "Delete" /\ ret.ok
    /\ \E m \in Names \ {ret.name} :
          /\ Has(schemas, m)
          /\ Len(VersionsOf(versions, m)) = 1


(***************************************************************************)
(* BootSpec: the bootstrap.  initDefaultSchemas registers the four seeds   *)
(* on the empty store; here its four calls are taken in every order, and   *)
(* the store is read with Get, List and Count.                             *)
(***************************************************************************)
\* The options of the i-th call of initDefaultSchemas.
SeedOptions(i) == [isNil |-> FALSE, Description |-> Seeds[i][3], Compatibility |-> ""]

BootInit ==
    /\ schemas = EmptyMap
    /\ versions = EmptyMap
    /\ nextID = FirstID
    /\ clock = 0
    /\ ret = [op |-> "NewSchemaRegistry", ok |-> TRUE]
    /\ lineage = [n \in SeedNames |-> <<>>]
    /\ issued = <<>>
    /\ deleted = {}
    /\ pc = [p \in Procs |-> "idle"]
    /\ call = [p \in Procs |-> NoCall]
    /\ local = [p \in Procs |-> NoLocal]
    /\ obs = [p \in Readers |-> NoObs]
    /\ muWriter = NoProc
    /\ muReaders = {}
    /\ committed = <<EmptyMap, EmptyMap, FirstID>>
    /\ ExtInit

\* One call of initDefaultSchemas, each seed being registered once.
BootRegister(i) ==
    /\ Len(lineage[Seeds[i][1]]) = 0
    /\ ~RegisterRejects(SchemaTypeJSON, Seeds[i][2])
    /\ RegisterAccepted(Seeds[i][1], SchemaTypeJSON, Seeds[i][2], SeedOptions(i))

\* The reads of the store: Get, List and Count.
BootGet(name) ==
    /\ ret' = [op |-> "Get", name |-> name, out |-> Get(schemas, name)]
    /\ UNCHANGED <<store, clock, ghost>>
BootList ==
    /\ \E l \in List(schemas) : ret' = [op |-> "List", out |-> l]
    /\ UNCHANGED <<store, clock, ghost>>
BootCount ==
    /\ ret' = [op |-> "Count", out |-> Count(schemas)]
    /\ UNCHANGED <<store, clock, ghost>>

BootNext ==
    \/ \E i \in 1..Len(Seeds) : BootRegister(i) /\ UNCHANGED <<conc, ext>>
    \/ \E n \in SeedNames : BootGet(n) /\ UNCHANGED <<conc, ext>>
    \/ BootList /\ UNCHANGED <<conc, ext>>
    \/ BootCount /\ UNCHANGED <<conc, ext>>

BootSpec == BootInit /\ [][BootNext]_vars

\* The bootstrap is over: every seed has been registered.
BootDone == \A n \in SeedNames : Len(lineage[n]) = 1

\* The store the bootstrap leaves when its calls are taken in the order of
\* the source, the k-th call reading the clock as k.
BootReference ==
    [n \in SeedNames |->
        RegisterInfo(EmptyMap, FirstID + SeedIndex(n) - 1, n, SchemaTypeJSON,
                     Seeds[SeedIndex(n)][2], SeedOptions(SeedIndex(n)), SeedIndex(n))]

\* C33 (the claim as stated) - After the bootstrap, whatever the order of
\* its calls, Get of every seed and List return what they return after the
\* bootstrap in the order of the source.
BootOrderIndependent ==
    (BootDone /\ ret.op \in {"Get", "List"}) =>
        /\ ret.op = "Get" => ret.out = Get(BootReference, ret.name)
        /\ ret.op = "List" => ret.out \in List(BootReference)

\* A SchemaInfo without the fields that tell when it was registered.
Timeless(info) ==
    [Name |-> info.Name, Version |-> info.Version, Type |-> info.Type,
     Schema |-> info.Schema, Compatibility |-> info.Compatibility,
     Description |-> info.Description]

\* C33 (amended) - After the bootstrap in any order the store holds the
\* same four names, each at version 1 with empty history, the definition
\* and description of its seed and compatibility BACKWARD; Count() is 4;
\* Get and List return the same schemas up to the id and the timestamps,
\* which follow the order of the calls: the k-th seed registered has id k
\* and List returns the seeds in the order they were registered.
BootSameUpToOrder ==
    BootDone =>
        /\ DOMAIN schemas = SeedNames
        /\ versions = EmptyMap
        /\ Count(schemas) = 4
        /\ \A n \in SeedNames :
               /\ Timeless(schemas[n]) = Timeless(BootReference[n])
               /\ schemas[n].Version = 1
               /\ schemas[n].Compatibility = CompatibilityBackward
               /\ GetVersions(schemas, versions, n).val = <<ArchiveRecord(schemas[n])>>
        /\ {schemas[n].ID : n \in SeedNames} = FirstID..(FirstID + 3)
        /\ \A n \in SeedNames : schemas[n].CreatedAt = schemas[n].ID - FirstID + 1
        /\ ret.op = "Get" => Timeless(ret.out.val) = Timeless(BootReference[ret.name])
        /\ ret.op = "List" =>
               /\ {Timeless(ret.out[k]) : k \in 1..Len(ret.out)}
                      = {Timeless(BootReference[n]) : n \in SeedNames}
               /\ \A k \in 1..Len(ret.out) : ret.out[k].ID = issued[k]
        /\ ret.op = "Count" => ret.out = 4

\* List after a bootstrap that registered PaymentEvent first and OrderEvent
\* last.
BootSameUpToOrderWitness ==
    /\ BootDone
    /\ ret.op = "List"
    /\ ret.out[1].Name = "PaymentEvent"
    /\ ret.out[4].Name = "OrderEvent"


(***************************************************************************)
(* RaceSpec: callers register one name concurrently on the empty store,    *)
(* every call with a definition of its own, while other callers read it.   *)
(***************************************************************************)
\* The well-formed definitions the calls pass.
RaceDefinitions == {RawOrderV1, RawOrderV2, OrderEventSchema}
\* The definitions in the history and the current schema of a name, oldest
\* first.
DefinitionsOf(s, vs, name) ==
    [i \in 1..Len(VersionsOf(vs, name)) |-> VersionsOf(vs, name)[i].Schema]
        \o (IF Has(s, name) THEN <<s[name].Schema>> ELSE <<>>)
\* The definitions passed by the calls so far: those in the store and those
\* of the calls under way.
PassedDefinitions ==
    UNION {{DefinitionsOf(schemas, versions, n)[i] :
               i \in 1..Len(DefinitionsOf(schemas, versions, n))} : n \in ConcNames}
        \cup {call[q].schema : q \in {w \in Writers : call[w].op = "Register"}}
\* The next call: Register of the name with a definition no call has passed.
RaceCalls ==
    {[op |-> "Register", name |-> n, type |-> SchemaTypeJSON, schema |-> d, opts |-> NilOptions] :
        n \in ConcNames, d \in RaceDefinitions \ PassedDefinitions}

RaceNext ==
    \/ \E p \in Writers : \E c \in RaceCalls : CallLock(p, c)
    \/ \E p \in Writers : LockAcquire(p)
    \/ \E p \in Writers : LockEnter(p)
    \/ \E p \in Writers : RegisterCheckStep(p)
    \/ \E p \in Writers : RegisterArchiveStep(p)
    \/ \E p \in Writers : RegisterInstallStep(p)
    \/ \E p \in Writers : RegisterIncrStep(p)
    \/ \E p \in Writers : Unlock(p)
    \/ \E p \in Readers : \E n \in ConcNames : CallRLock(p, [op |-> "Get", name |-> n])
    \/ \E p \in Readers : ReadStep(p)
    \/ \E p \in Readers : RUnlock(p)

RaceSpec == Init /\ [][RaceNext]_vars

\* The calls of Register whose writes are complete: every call reads the
\* clock once, before its first write.
RegistersDone ==
    clock - Cardinality({p \in Writers : pc[p] \in {"archive", "install", "incr"}})
\* No call of Register is between its first and its last write.
NoRegisterHalfWay == \A p \in Writers : pc[p] \notin {"archive", "install", "incr"}

\* C31 - Concurrent writers lose no update: whenever k calls of Register of
\* a name that was not registered have completed their writes, however they
\* and the readers were interleaved, the current version is k, the history
\* has k-1 records with the versions 1..k-1, the k definitions passed appear
\* once each among the history and the current schema, and the calls took
\* the ids FirstID..FirstID+k-1, the call that has just finished holding
\* the last of them.
NoLostUpdate ==
    \A n \in ConcNames :
        LET k == RegistersDone
            defs == DefinitionsOf(schemas, versions, n)
        IN (NoRegisterHalfWay /\ k > 0) =>
               /\ Has(schemas, n)
               /\ schemas[n].Version = k
               /\ Len(VersionsOf(versions, n)) = k - 1
               /\ \A i \in 1..(k - 1) : versions[n][i].Version = i
               /\ Len(defs) = k
               /\ \A i, j \in 1..Len(defs) : i # j => defs[i] # defs[j]
               /\ \A p \in Writers : pc[p] = "unlock" => defs[k] = call[p].schema
               /\ schemas[n].ID = FirstID + k - 1
               /\ nextID = FirstID + k

\* Two calls at the same time: the first to get the lock has written
\* version 1 and is about to unlock, the other waits for the lock with
\* another definition.
NoLostUpdateWitness ==
    \E p, q \in Writers :
        /\ pc[p] = "unlock" /\ call[p].op = "Register"
        /\ pc[q] \in {"wblocked"} /\ call[q].op = "Register"
        /\ call[q].schema # call[p].schema
        /\ schemas[call[p].name].Version = 1


(***************************************************************************)
(* Validate among concurrent writers, under ConcSpec.                      *)
(***************************************************************************)
\* The store holding nothing but what a lookup of the name returned.
StoreOfLookup(name, got) == IF got.ok THEN (name :> got.val) ELSE EmptyMap

\* C37 - Validate is linearizable at its lookup: the lookup inside Validate
\* returns the current schema of the name (or not-found) in the store as
\* the last completed mutation left it, at an instant between Validate's
\* call and its return; what the lookup returned is not changed by the
\* writers that run afterwards, and the result of Validate is the result
\* of validating the payload against that one schema (the not-found result
\* when the lookup found nothing), whatever the store holds at that time.
ValidateLinearizable ==
    [][\A p \in Readers :
          call[p].op = "Validate" =>
              /\ (pc[p] = "read" /\ pc'[p] = "runlock") =>
                     /\ <<schemas, versions, nextID>> = committed
                     /\ obs'[p] = Get(committed[1], call[p].name)
              /\ (pc[p] \in {"runlock", "validate"} /\ pc'[p] \in {"runlock", "validate"}) =>
                     obs'[p] = obs[p]
              /\ (pc[p] = "validate" /\ pc'[p] = "vreturn") =>
                     /\ obs'[p].got = obs[p]
                     /\ obs'[p].out \in Validate(StoreOfLookup(call[p].name, obs[p]),
                                                 call[p].name, call[p].data)
              /\ (pc[p] = "vreturn" /\ pc'[p] = "vreturn") => obs'[p] = obs[p]]_vars

\* Validate is about to return the result for version 1 of a schema that
\* has been superseded in the meantime by version 2, with another
\* definition.
ValidateLinearizableWitness ==
    \E p \in Readers :
        /\ pc[p] = "vreturn"
        /\ obs[p].got.ok /\ obs[p].got.val.Version = 1
        /\ ~obs[p].out.panic /\ ~obs[p].out.result.Valid
        /\ Has(committed[1], call[p].name)
        /\ committed[1][call[p].name].Version = 2
        /\ committed[1][call[p].name].Schema # obs[p].got.val.Schema


(***************************************************************************)
(* HttpSpec: the HTTP API of schema-web (cmd/schema-web/main.go 211-309)   *)
(* on the seeded store.  A handler decodes the request, calls at most one  *)
(* operation of the store and writes a status code and an APIResponse      *)
(* envelope.  resp holds the request together with the answer; calls are   *)
(* the store operations the handler called.                                *)
(***************************************************************************)
\* Readings of the clock in HttpSpec.
MaxHttpClock == 1

\* net/http status codes; a handler that never calls WriteHeader answers 200.
StatusOK == 200
StatusBadRequest == 400
StatusNotFound == 404
StatusMethodNotAllowed == 405

MethodGet == "GET"
MethodPost == "POST"
MethodDelete == "DELETE"
MethodPut == "PUT"
Methods == {MethodGet, MethodPost, MethodDelete, MethodPut}

\* A json.RawMessage field that the request body does not have: the empty
\* message, which is not well-formed JSON.
RawAbsent == [text |-> "", wf |-> FALSE, val |-> "none"]

\* Request bodies.  json.NewDecoder(r.Body).Decode(&req) fails on a body
\* that is not JSON or does not fit the struct; a json.RawMessage field of a
\* body that decodes is well-formed JSON, or absent.
BodyUndecodable == [wf |-> FALSE]
RegisterBody(name, type, schema, description) ==
    [wf |-> TRUE, Name |-> name, Type |-> type, Schema |-> schema, Description |-> description]
ValidateBody(schemaName, data) ==
    [wf |-> TRUE, SchemaName |-> schemaName, Data |-> data]

\* json.NewEncoder(w).Encode(APIResponse{...}) after the status code.
Answer(req, status, success, data, calls) ==
    [req |-> req, status |-> status, envelope |-> TRUE, success |-> success,
     data |-> data, calls |-> calls]
\* w.WriteHeader(status) and nothing else.
BareAnswer(req, status) ==
    [req |-> req, status |-> status, envelope |-> FALSE, success |-> FALSE,
     data |-> "none", calls |-> <<>>]
\* The handler panicked: net/http recovers, logs and drops the connection.
Aborted(req, calls) ==
    [req |-> req, status |-> 0, envelope |-> FALSE, success |-> FALSE,
     data |-> "none", calls |-> calls]

\* handleAPISchemas 230-235: the kind named by req.Type.
SchemaTypeOf(type) ==
    IF type = "protobuf" THEN SchemaTypeProtobuf
    ELSE IF type = "avro" THEN SchemaTypeAvro
    ELSE SchemaTypeJSON

\* Variant: a refused registration is answered like an accepted one.
RegisterAnswerAlwaysOK(req, failed) ==
    Answer(req, StatusOK, TRUE, "registered", <<"Register">>)

\* handleAPISchemas 237-245: the answer after registry.Register.
RegisterAnswer(req, failed) ==
    IF failed
    THEN Answer(req, StatusBadRequest, FALSE, "InvalidDefinition", <<"Register">>)
    ELSE Answer(req, StatusOK, TRUE, "registered", <<"Register">>)

\* handleAPISchemas (main.go 211-252)
handleAPISchemas(method, body) ==
    LET req == [path |-> "/api/schemas", method |-> method, body |-> body]
    IN CASE method = MethodGet ->
              /\ \E l \in List(schemas) :
                     /\ resp' = Answer(req, StatusOK, TRUE, l, <<"List">>)
                     /\ ret' = [op |-> "List", ok |-> TRUE, out |-> l]
              /\ UNCHANGED <<store, clock, ghost>>
         [] method = MethodPost ->
              IF ~body.wf
              THEN /\ resp' = Answer(req, StatusBadRequest, FALSE, "decode", <<>>)
                   /\ UNCHANGED <<store, clock, ret, ghost>>
              ELSE /\ clock < MaxHttpClock
                   /\ Register(body.Name, SchemaTypeOf(body.Type), body.Schema,
                               [isNil |-> FALSE, Description |-> body.Description,
                                Compatibility |-> ""])
                   /\ resp' = RegisterAnswer(req, ~ret'.ok)
         [] OTHER ->
              /\ resp' = BareAnswer(req, StatusMethodNotAllowed)
              /\ UNCHANGED <<store, clock, ret, ghost>>

\* handleAPISchemaByName (main.go 254-287)
handleAPISchemaByName(method, name) ==
    LET req == [path |-> "/api/schemas/", method |-> method, name |-> name]
    IN IF name = ""
       THEN /\ resp' = Answer(req, StatusBadRequest, FALSE, "name required", <<>>)
            /\ UNCHANGED <<store, clock, ret, ghost>>
       ELSE CASE method = MethodGet ->
                   /\ ret' = [op |-> "Get", ok |-> Get(schemas, name).ok, name |-> name,
                              out |-> Get(schemas, name)]
                   /\ resp' = IF Get(schemas, name).ok
                              THEN Answer(req, StatusOK, TRUE, Get(schemas, name).val, <<"Get">>)
                              ELSE Answer(req, StatusNotFound, FALSE, "NotFound", <<"Get">>)
                   /\ UNCHANGED <<store, clock, ghost>>
              [] method = MethodDelete ->
                   /\ Delete(name)
                   /\ resp' = IF ret'.ok
                              THEN Answer(req, StatusOK, TRUE, "deleted", <<"Delete">>)
                              ELSE Answer(req, StatusNotFound, FALSE, "NotFound", <<"Delete">>)
              [] OTHER ->
                   /\ resp' = BareAnswer(req, StatusMethodNotAllowed)
                   /\ UNCHANGED <<store, clock, ret, ghost>>

\* handleAPIValidate (main.go 289-309)
handleAPIValidate(method, body) ==
    LET req == [path |-> "/api/validate", method |-> method, body |-> body]
    IN IF method # MethodPost
       THEN /\ resp' = BareAnswer(req, StatusMethodNotAllowed)
            /\ UNCHANGED <<store, clock, ret, ghost>>
       ELSE IF ~body.wf
       THEN /\ resp' = Answer(req, StatusBadRequest, FALSE, "decode", <<>>)
            /\ UNCHANGED <<store, clock, ret, ghost>>
       ELSE /\ ValidateCall(body.SchemaName, body.Data)
            /\ resp' = IF ret'.out.panic
                       THEN Aborted(req, <<"Validate">>)
                       ELSE Answer(req, StatusOK, TRUE, ret'.out.result, <<"Validate">>)

\* The requests: each route with the methods it serves and with others; a
\* handler looks at the method before it reads the body.
HttpRegisterBodies ==
    { BodyUndecodable,
      RegisterBody("OrderEvent", "json", RawOrderV1, "orders"),
      RegisterBody("OrderEvent", "", NumberInRequiredSchema, ""),
      RegisterBody("OrderEvent", "xml", RawAbsent, "orders"),
      RegisterBody("OrderEvent", "avro", RawAbsent, "") }
HttpSchemasRequests ==
    ({MethodPost} \X HttpRegisterBodies)
        \cup ({MethodGet, MethodDelete, MethodPut} \X {BodyUndecodable})
HttpByNameRequests ==
    ({MethodGet, MethodDelete} \X {"OrderEvent", "UnknownSchema", ""})
        \cup {<<MethodPut, "OrderEvent">>, <<MethodPost, "UnknownSchema">>, <<MethodPut, "">>}
HttpValidateBodies ==
    {BodyUndecodable, ValidateBody("UnknownSchema", PayloadOrderOK)}
        \cup {ValidateBody("OrderEvent", d) :
                 d \in {PayloadOrderOK, PayloadOrderBad, PayloadEmptyObject, RawAbsent}}
HttpValidateRequests ==
    ({MethodPost} \X HttpValidateBodies)
        \cup {<<MethodGet, BodyUndecodable>>,
               <<MethodPut, ValidateBody("OrderEvent", PayloadOrderBad)>>}

HttpInit == ValidateInit

HttpNext ==
    \/ \E q \in HttpSchemasRequests :
           handleAPISchemas(q[1], q[2]) /\ UNCHANGED <<conc, publishHistory, publishID, historyMutex, consumer>>
    \/ \E q \in HttpByNameRequests :
           handleAPISchemaByName(q[1], q[2]) /\ UNCHANGED <<conc, publishHistory, publishID, historyMutex, consumer>>
    \/ \E q \in HttpValidateRequests :
           handleAPIValidate(q[1], q[2]) /\ UNCHANGED <<conc, publishHistory, publishID, historyMutex, consumer>>

HttpSpec == HttpInit /\ [][HttpNext]_vars

\* C32 - The status codes of the API, as a property of every request (the
\* store before the request, the answer after it): a POST /api/schemas
\* whose Register fails is answered 400 with success=false and the store is
\* as before; GET and DELETE /api/schemas/{name} of a name that is not
\* registered are answered 404 with success=false; every other method on
\* the three routes is answered 405 without a call of the store; a POST
\* /api/validate whose payload Validate finds invalid is answered 200 with
\* success=true and the result, valid=false, as data.
HttpStatusMapping ==
    [][LET q == resp'.req
       IN /\ (q.path = "/api/schemas" /\ q.method = MethodPost /\ q.body.wf
                  /\ RegisterRejects(SchemaTypeOf(q.body.Type), q.body.Schema)) =>
                 /\ resp'.status = StatusBadRequest
                 /\ resp'.envelope /\ ~resp'.success
                 /\ ret'.op = "Register" /\ ~ret'.ok
                 /\ <<schemas, versions, nextID>>' = <<schemas, versions, nextID>>
          /\ (q.path = "/api/schemas" /\ q.method = MethodPost /\ q.body.wf
                  /\ ~RegisterRejects(SchemaTypeOf(q.body.Type), q.body.Schema)) =>
                 /\ resp'.status = StatusOK /\ resp'.success
                 /\ Has(schemas', q.body.Name)
          /\ (q.path = "/api/schemas/" /\ q.method \in {MethodGet, MethodDelete}
                  /\ q.name # "" /\ ~Has(schemas, q.name)) =>
                 /\ resp'.status = StatusNotFound
                 /\ resp'.envelope /\ ~resp'.success
                 /\ <<schemas, versions, nextID>>' = <<schemas, versions, nextID>>
          /\ (q.path = "/api/schemas/" /\ q.method \in {MethodGet, MethodDelete}
                  /\ Has(schemas, q.name)) =>
                 /\ resp'.status = StatusOK /\ resp'.success
          /\ (\/ q.path = "/api/schemas" /\ q.method \notin {MethodGet, MethodPost}
              \/ q.path = "/api/schemas/" /\ q.method \notin {MethodGet, MethodDelete}
                    /\ q.name # ""
              \/ q.path = "/api/validate" /\ q.method # MethodPost) =>
                 /\ resp'.status = StatusMethodNotAllowed
                 /\ resp'.calls = <<>>
                 /\ ret' = ret
                 /\ <<schemas, versions, nextID>>' = <<schemas, versions, nextID>>
          /\ (q.path = "/api/validate" /\ q.method = MethodPost /\ q.body.wf) =>
                 LET outs == Validate(schemas, q.body.SchemaName, q.body.Data)
                 IN (\A out \in outs : ~out.panic /\ ~out.result.Valid) =>
                        /\ resp'.status = StatusOK
                        /\ resp'.envelope /\ resp'.success
                        /\ ~resp'.data.Valid
                        /\ resp'.data \in {out.result : out \in outs}]_vars

\* A refused registration of a registered name, answered 400.
HttpStatusMappingWitness ==
    /\ resp.status = StatusBadRequest
    /\ resp.calls = <<"Register">>
    /\ ret.op = "Register" /\ ~ret.ok
    /\ Has(schemas, ret.name)


(***************************************************************************)
(* The publish history of schema-web (main.go 33-51 and 475-499).          *)
(* addPublishRecord runs under historyMutex; it is called by the handlers  *)
(* of POST /api/publish, which run concurrently.  HistorySpec has the      *)
(* handlers at their calls of addPublishRecord.                            *)
(***************************************************************************)
\* Calls of addPublishRecord in a behaviour of HistorySpec.
MaxRecords == 102
\* The number of records addPublishRecord keeps (main.go 494-495).
MaxHistory == 100

\* The PublishRecord literal of addPublishRecord (main.go 480-488).
PublishRecord(id, c, now) ==
    [ID |-> id, SchemaName |-> c.schemaName, Exchange |-> c.exchange,
     RoutingKey |-> c.routingKey, Success |-> c.success, Error |-> c.errMsg,
     Timestamp |-> now]

\* publishHistory = append([]PublishRecord{record}, publishHistory...)
Prepend(record, history) == <<record>> \o history

\* Variant: the oldest 100 records are kept.
TruncateKeepsOldest(history) ==
    IF Len(history) > MaxHistory
    THEN SubSeq(history, Len(history) - MaxHistory + 1, Len(history))
    ELSE history

\* if len(publishHistory) > 100 { publishHistory = publishHistory[:100] }
Truncate(history) ==
    IF Len(history) > MaxHistory THEN SubSeq(history, 1, MaxHistory) ELSE history

\* The handlers, each on a goroutine of its own.
Handlers == Readers
\* Statements of addPublishRecord under historyMutex.
HistorySection == {"h_incr", "h_record", "h_prepend", "h_truncate", "h_unlock"}

\* historyMutex.Lock(): the caller waits until no caller holds the mutex.
HistoryLock(p) ==
    /\ pc[p] = "h_lock"
    /\ historyMutex = NoProc
    /\ historyMutex' = p
    /\ pc' = [pc EXCEPT ![p] = "h_incr"]
    /\ UNCHANGED <<store, clock, ret, ghost, call, local, obs, muWriter, muReaders, committed,
                   resp, publishHistory, publishID, consumer>>

\* publishID++
HistoryIncr(p) ==
    /\ pc[p] = "h_incr"
    /\ publishID' = publishID + 1
    /\ pc' = [pc EXCEPT ![p] = "h_record"]
    /\ UNCHANGED <<store, clock, ret, ghost, call, local, obs, muWriter, muReaders, committed,
                   resp, publishHistory, historyMutex, consumer>>

\* record := PublishRecord{ID: publishID, ..., Timestamp: time.Now()}
HistoryRecord(p) ==
    /\ pc[p] = "h_record"
    /\ clock' = clock + 1
    /\ local' = [local EXCEPT ![p] =
                     [now |-> clock + 1,
                      record |-> PublishRecord(publishID, call[p].record, clock + 1)] @@ local[p]]
    /\ pc' = [pc EXCEPT ![p] = "h_prepend"]
    /\ UNCHANGED <<store, ret, ghost, call, obs, muWriter, muReaders, committed, web, consumer>>

\* The new record goes in front.
HistoryPrepend(p) ==
    /\ pc[p] = "h_prepend"
    /\ publishHistory' = Prepend(local[p].record, publishHistory)
    /\ pc' = [pc EXCEPT ![p] = "h_truncate"]
    /\ UNCHANGED <<store, clock, ret, ghost, call, local, obs, muWriter, muReaders, committed,
                   resp, publishID, historyMutex, consumer>>

\* At most 100 records are kept.
HistoryTruncate(p) ==
    /\ pc[p] = "h_truncate"
    /\ publishHistory' = Truncate(publishHistory)
    /\ pc' = [pc EXCEPT ![p] = "h_unlock"]
    /\ UNCHANGED <<store, clock, ret, ghost, call, local, obs, muWriter, muReaders, committed,
                   resp, publishID, historyMutex, consumer>>

\* The deferred historyMutex.Unlock(); addPublishRecord returns record to
\* the handler.
HistoryUnlock(p) ==
    /\ pc[p] = "h_unlock"
    /\ historyMutex' = NoProc
    /\ pc' = [pc EXCEPT ![p] = "h_return"]
    /\ UNCHANGED <<store, clock, ret, ghost, call, local, obs, muWriter, muReaders, committed,
                   resp, publishHistory, publishID, consumer>>

\* The calls of addPublishRecord that have begun and not yet counted.
PendingRecords == Cardinality({p \in Handlers : pc[p] \in {"h_lock", "h_incr"}})

\* The arguments of the call that records a successful publish (main.go 464).
RecordArgs ==
    [schemaName |-> "OrderEvent", exchange |-> "schema.events", routingKey |-> "orderevent",
     success |-> TRUE, errMsg |-> ""]

\* A handler reaches its call of addPublishRecord.
HistoryCall(p) ==
    /\ pc[p] = "idle"
    /\ publishID + PendingRecords < MaxRecords
    /\ call' = [call EXCEPT ![p] = [op |-> "addPublishRecord", record |-> RecordArgs]]
    /\ pc' = [pc EXCEPT ![p] = "h_lock"]
    /\ UNCHANGED <<store, clock, ret, ghost, local, obs, muWriter, muReaders, committed, ext>>

\* The handler has the record and goes on to write its answer.
HistoryReturn(p) ==
    /\ pc[p] = "h_return"
    /\ call[p].op = "addPublishRecord"
    /\ pc' = [pc EXCEPT ![p] = "idle"]
    /\ call' = [call EXCEPT ![p] = NoCall]
    /\ local' = [local EXCEPT ![p] = NoLocal]
    /\ UNCHANGED <<store, clock, ret, ghost, obs, muWriter, muReaders, committed, ext>>

HistoryNext ==
    \/ \E p \in Handlers : HistoryCall(p)
    \/ \E p \in Handlers : HistoryLock(p)
    \/ \E p \in Handlers : HistoryIncr(p)
    \/ \E p \in Handlers : HistoryRecord(p)
    \/ \E p \in Handlers : HistoryPrepend(p)
    \/ \E p \in Handlers : HistoryTruncate(p)
    \/ \E p \in Handlers : HistoryUnlock(p)
    \/ \E p \in Handlers : HistoryReturn(p)

HistorySpec == Init /\ [][HistoryNext]_vars

\* C39 - Publish history bound and order: whenever no call is inside
\* addPublishRecord's critical section the history holds at most 100
\* records, newest first, with strictly descending and so unique ids, and
\* they are the records with the largest ids handed out (all of them while
\* no more than 100 were added); a call returns the record it put in front,
\* whose id is one greater than the id the previous call returned.
HistoryBoundAndOrder ==
    /\ historyMutex = NoProc =>
           /\ Len(publishHistory) <= MaxHistory
           /\ Len(publishHistory) = (IF publishID > MaxHistory THEN MaxHistory ELSE publishID)
           /\ \A i \in 1..Len(publishHistory) : publishHistory[i].ID = publishID - i + 1
           /\ \A i, j \in 1..Len(publishHistory) :
                  i < j => publishHistory[i].ID > publishHistory[j].ID
    /\ \A p \in Handlers :
           pc[p] \in {"h_unlock", "h_return"} =>
               /\ local[p].record.ID \in 1..publishID
               /\ pc[p] = "h_unlock" =>
                      /\ publishHistory[1] = local[p].record
                      /\ local[p].record.ID = publishID
                      /\ Len(publishHistory) > 1 =>
                             publishHistory[2].ID = local[p].record.ID - 1
    /\ \A p, q \in Handlers :
           (p # q /\ pc[p] = "h_return" /\ pc[q] \in {"h_unlock", "h_return"}) =>
               local[p].record.ID # local[q].record.ID

\* The 102nd record has been added while the other handler waits for the
\* mutex: the history holds the records 3..102.
HistoryBoundAndOrderWitness ==
    \E p, q \in Handlers :
        /\ pc[p] = "h_return" /\ local[p].record.ID = MaxHistory + 2
        /\ pc[q] = "h_return" /\ local[q].record.ID = MaxHistory + 1
        /\ Len(publishHistory) = MaxHistory
        /\ publishHistory[MaxHistory].ID = 3

(***************************************************************************)
(* POST /api/publish of schema-web (main.go 381-473 and 501-507), handler  *)
(* by handler and statement by statement, next to writers of the registry. *)
(***************************************************************************)
\* Records addPublishRecord is asked for in a behaviour of PublishSpec.
MaxPublishes == 1

StatusInternalServerError == 500
StatusServiceUnavailable == 503

\* The request body of handleAPIPublish (main.go 389-395).
PublishBody(schemaName, exchange, routingKey, data, validate) ==
    [wf |-> TRUE, SchemaName |-> schemaName, Exchange |-> exchange,
     RoutingKey |-> routingKey, Data |-> data, Validate |-> validate]

\* strings.ToLower on the schema names of the requests.
ToLower(str) ==
    CASE str = "OrderEvent" -> "orderevent"
      [] str = "UnknownSchema" -> "unknownschema"
      [] OTHER -> str

\* The defaults of handleAPIPublish (main.go 404-409).
ExchangeOf(body) == IF body.Exchange = "" THEN "schema.events" ELSE body.Exchange
RoutingKeyOf(body) ==
    IF body.RoutingKey = "" THEN ToLower(body.SchemaName) ELSE body.RoutingKey

\* The arguments of a call of addPublishRecord by the handler p.
RecordOf(p, success, errMsg) ==
    [schemaName |-> call[p].name, exchange |-> call[p].exchange,
     routingKey |-> call[p].routingKey, success |-> success, errMsg |-> errMsg]

\* The requests under way that have not reached publishID++ in
\* addPublishRecord.
PendingPublishes ==
    Cardinality({p \in Handlers :
        call[p].op = "Publish" /\ pc[p] \notin (HistorySection \ {"h_incr"}) \cup {"h_return"}})

\* handleAPIPublish 384-412: the method, the body, the defaults, and, with
\* validate=true, registry.Validate up to the RLock of its Get.
PublishRequest(p, method, body) ==
    LET req == [path |-> "/api/publish", method |-> method, body |-> body]
    IN /\ pc[p] = "idle"
       /\ IF method # MethodPost
          THEN /\ resp' = BareAnswer(req, StatusMethodNotAllowed)
               /\ UNCHANGED <<store, clock, ret, ghost, conc, publishHistory, publishID,
                              historyMutex, consumer>>
          ELSE IF ~body.wf
          THEN /\ resp' = Answer(req, StatusBadRequest, FALSE, "decode", <<>>)
               /\ UNCHANGED <<store, clock, ret, ghost, conc, publishHistory, publishID,
                              historyMutex, consumer>>
          ELSE LET c == [op |-> "Publish", req |-> req, name |-> body.SchemaName,
                         data |-> body.Data, validate |-> body.Validate,
                         exchange |-> ExchangeOf(body), routingKey |-> RoutingKeyOf(body),
                         phase |-> "validate", record |-> "none"]
               IN /\ publishID + PendingPublishes < MaxPublishes
                  /\ IF body.Validate
                     THEN CallRLock(p, c)
                     ELSE /\ call' = [call EXCEPT ![p] = c]
                          /\ pc' = [pc EXCEPT ![p] = "pub_connect"]
                          /\ UNCHANGED <<store, clock, ret, ghost, ext, local, obs,
                                         muWriter, muReaders, committed>>

\* getSchemaVersion 501-507 after its Get: the version, 0 on an error.
SchemaVersionOf(p) == IF obs[p].ok THEN obs[p].val.Version ELSE 0

\* registry.Validate after its Get (registry.go 254-283), and the branch of
\* handleAPIPublish on result.Valid (main.go 413-425).
PublishValidateStep(p) ==
    /\ pc[p] = "pub_validate"
    /\ \E out \in Validate(StoreOfLookup(call[p].name, obs[p]), call[p].name, call[p].data) :
           IF out.panic
           THEN /\ resp' = Aborted(call[p].req, <<"Validate">>)
                /\ pc' = [pc EXCEPT ![p] = "idle"]
                /\ call' = [call EXCEPT ![p] = NoCall]
                /\ obs' = [obs EXCEPT ![p] = NoObs]
                /\ UNCHANGED local
           ELSE /\ local' = [local EXCEPT ![p] =
                                [now |-> 0, validated |-> obs[p], result |-> out.result]]
                /\ IF out.result.Valid
                   THEN /\ pc' = [pc EXCEPT ![p] = "pub_connect"]
                        /\ UNCHANGED call
                   ELSE /\ pc' = [pc EXCEPT ![p] = "h_lock"]
                        /\ call' = [call EXCEPT ![p].phase = "invalid",
                                                ![p].record =
                                                    RecordOf(p, FALSE,
                                                        <<"validation failed", out.result.Message>>)]
                /\ UNCHANGED <<resp, obs>>
    /\ UNCHANGED <<store, clock, ret, ghost, muWriter, muReaders, committed,
                   publishHistory, publishID, historyMutex, consumer>>

\* getOrCreatePublisher (main.go 339-358, called at 428): it fails when
\* there is no connection or the publisher cannot be made; when it
\* succeeds, the handler goes on to getSchemaVersion, up to the RLock of
\* its Get (json.Unmarshal of the payload changes no state and its error is
\* dropped).
PublishConnectStep(p) ==
    /\ pc[p] = "pub_connect"
    /\ \E connected \in BOOLEAN :
           IF connected
           THEN /\ call' = [call EXCEPT ![p].phase = "version"]
                /\ IF RLockMayEnter(muWriter)
                   THEN /\ muReaders' = muReaders \cup {p}
                        /\ pc' = [pc EXCEPT ![p] = "read"]
                   ELSE /\ pc' = [pc EXCEPT ![p] = "rblocked"]
                        /\ UNCHANGED muReaders
           ELSE /\ call' = [call EXCEPT ![p].phase = "unavailable",
                                        ![p].record = RecordOf(p, FALSE, "no publisher")]
                /\ pc' = [pc EXCEPT ![p] = "h_lock"]
                /\ UNCHANGED muReaders
    /\ UNCHANGED <<store, clock, ret, ghost, ext, local, obs, muWriter, committed>>

\* pub.PublishWithHeaders (main.go 448-452) with the headers schema_name,
\* schema_version and published_at, and the branch on its error.
PublishSendStep(p) ==
    /\ pc[p] = "pub_send"
    /\ clock' = clock + 1
    /\ \E sent \in BOOLEAN :
           /\ local' = [local EXCEPT ![p] =
                            [sent |-> sent,
                             headers |-> [schema_name |-> call[p].name,
                                          schema_version |-> SchemaVersionOf(p),
                                          published_at |-> clock + 1]] @@ local[p]]
           /\ call' = [call EXCEPT ![p].phase = IF sent THEN "published" ELSE "failed",
                                   ![p].record = IF sent THEN RecordOf(p, TRUE, "")
                                                 ELSE RecordOf(p, FALSE, "publish failed")]
    /\ pc' = [pc EXCEPT ![p] = "h_lock"]
    /\ UNCHANGED <<store, ret, ghost, obs, muWriter, muReaders, committed, ext>>

\* The answer of handleAPIPublish once addPublishRecord has returned.
PublishAnswer(p) ==
    /\ pc[p] = "h_return"
    /\ call[p].op = "Publish"
    /\ resp' =
          CASE call[p].phase = "invalid" ->
                 Answer(call[p].req, StatusOK, FALSE,
                        [validation |-> local[p].result, record |-> local[p].record],
                        <<"Validate">>)
            [] call[p].phase = "unavailable" ->
                 Answer(call[p].req, StatusServiceUnavailable, FALSE, local[p].record, <<>>)
            [] call[p].phase = "failed" ->
                 Answer(call[p].req, StatusInternalServerError, FALSE, local[p].record, <<>>)
            [] call[p].phase = "published" ->
                 Answer(call[p].req, StatusOK, TRUE,
                        [message |-> "published", record |-> local[p].record], <<>>)
    /\ pc' = [pc EXCEPT ![p] = "idle"]
    /\ call' = [call EXCEPT ![p] = NoCall]
    /\ local' = [local EXCEPT ![p] = NoLocal]
    /\ obs' = [obs EXCEPT ![p] = NoObs]
    /\ UNCHANGED <<store, clock, ret, ghost, muWriter, muReaders, committed,
                   publishHistory, publishID, historyMutex, consumer>>

\* The requests to /api/publish.
PublishRequests ==
    { <<MethodGet, BodyUndecodable>>, <<MethodPost, BodyUndecodable>>,
      <<MethodPost, PublishBody("OrderEvent", "", "", PayloadOrderOK, TRUE)>>,
      <<MethodPost, PublishBody("OrderEvent", "", "", PayloadEmptyObject, TRUE)>>,
      <<MethodPost, PublishBody("OrderEvent", "orders", "order.created", PayloadEmptyObject, FALSE)>> }
\* The requests to the registry that run next to them: w1 registers a new
\* definition of the name, w2 deletes the name.
PublishWriteCalls(p) ==
    IF p = "w1"
    THEN {[op |-> "Register", name |-> "OrderEvent", type |-> SchemaTypeJSON,
           schema |-> RawOrderV2, opts |-> NilOptions]}
    ELSE {[op |-> "Delete", name |-> "OrderEvent"]}

\* main 55-56: the registry holds the default schemas.
PublishInit == ValidateInit

PublishNext ==
    \/ \E p \in Handlers : \E q \in PublishRequests : PublishRequest(p, q[1], q[2])
    \/ \E p \in Handlers : ReadStep(p)
    \/ \E p \in Handlers : RUnlock(p)
    \/ \E p \in Handlers : PublishValidateStep(p)
    \/ \E p \in Handlers : PublishConnectStep(p)
    \/ \E p \in Handlers : PublishSendStep(p)
    \/ \E p \in Handlers : HistoryLock(p)
    \/ \E p \in Handlers : HistoryIncr(p)
    \/ \E p \in Handlers : HistoryRecord(p)
    \/ \E p \in Handlers : HistoryPrepend(p)
    \/ \E p \in Handlers : HistoryTruncate(p)
    \/ \E p \in Handlers : HistoryUnlock(p)
    \/ \E p \in Handlers : PublishAnswer(p)
    \/ \E p \in Writers : \E c \in PublishWriteCalls(p) : CallLock(p, c)
    \/ \E p \in Writers : LockAcquire(p)
    \/ \E p \in Writers : LockEnter(p)
    \/ \E p \in Writers : RegisterCheckStep(p)
    \/ \E p \in Writers : RegisterArchiveStep(p)
    \/ \E p \in Writers : RegisterInstallStep(p)
    \/ \E p \in Writers : RegisterIncrStep(p)
    \/ \E p \in Writers : DeleteCheckStep(p)
    \/ \E p \in Writers : DeleteSchemasStep(p)
    \/ \E p \in Writers : DeleteVersionsStep(p)
    \/ \E p \in Writers : Unlock(p)

PublishSpec == PublishInit /\ [][PublishNext]_vars

\* C38 - The schema_version header of a message the publish handler has
\* sent with validate=true is the version of the schema the payload was
\* validated against, however Register and Delete of that name are
\* interleaved with the handler.
HeaderVersionIsValidated ==
    \A p \in Handlers :
        (/\ call[p].op = "Publish"
         /\ call[p].validate
         /\ call[p].phase = "published") =>
            /\ local[p].validated.ok
            /\ local[p].headers.schema_version = local[p].validated.val.Version

(***************************************************************************)
(* The consumer: Consumer.Consume (part_000 126-157) with the handler      *)
(* handleOrder (cmd/consumer/main.go 83-100), next to the broker, which    *)
(* delivers to the channel msgs and may close it.  The queue is declared   *)
(* with a dead-letter exchange (cmd/consumer/main.go 53-60).               *)
(***************************************************************************)
\* Messages the broker delivers in a behaviour of ConsumerSpec.
MaxDeliveries == 3

\* The bodies of the messages on the queue.
ConsumerBodies == {PayloadOrderOK, PayloadAmountZero, PayloadStatusNumber, PayloadBroken}
\* The texts time.Time's UnmarshalJSON accepts among those of the bodies.
RFC3339Times == {"2024-01-01T00:00:00Z"}

\* Whether the member key of the object fits the field of OrderEvent:
\* absent or null leaves the field alone, any other kind is a type error.
FieldFits(obj, key, kind) ==
    \/ ~Has(obj, key)
    \/ obj[key].t = "null"
    \/ /\ obj[key].t = kind
       /\ key = "created_at" => obj[key].v \in RFC3339Times

\* json.Unmarshal(delivery.Body, &order) for models.OrderEvent (part_001
\* 6-12): whether it succeeds, and order.Amount.
UnmarshalOrder(body) ==
    IF ~body.wf THEN [ok |-> FALSE, Amount |-> 0]
    ELSE IF body.val.t = "null" THEN [ok |-> TRUE, Amount |-> 0]
    ELSE IF body.val.t # "obj" THEN [ok |-> FALSE, Amount |-> 0]
    ELSE LET obj == body.val.v
         IN [ok |-> /\ FieldFits(obj, "order_id", "str")
                    /\ FieldFits(obj, "customer_id", "str")
                    /\ FieldFits(obj, "amount", "num")
                    /\ FieldFits(obj, "status", "str")
                    /\ FieldFits(obj, "created_at", "str"),
             Amount |-> IF Has(obj, "amount") /\ obj["amount"].t = "num"
                        THEN obj["amount"].v ELSE 0]

\* handleOrder (cmd/consumer/main.go 83-100): the error it returns.
handleOrder(delivery) ==
    LET order == UnmarshalOrder(delivery.Body)
    IN IF ~order.ok THEN "unmarshal error"
       ELSE IF order.Amount <= 0 THEN "invalid amount"
       ELSE NilError

\* Variant: the message is acknowledged whatever the handler returned.
SettlementAckAlways(err) == [kind |-> "ack", multiple |-> FALSE, requeue |-> FALSE]

\* Consume 146-154: msg.Nack(false, false) on an error, msg.Ack(false)
\* otherwise.
Settlement(err) ==
    IF err # NilError
    THEN [kind |-> "nack", multiple |-> FALSE, requeue |-> FALSE]
    ELSE [kind |-> "ack", multiple |-> FALSE, requeue |-> FALSE]

\* c.conn.Channel().Consume(...) (Consume 127-138): the consumer is
\* registered with auto-ack off, or Consume returns the error.
ConsumeStart ==
    /\ consumePC = "idle"
    /\ \E started \in BOOLEAN : consumePC' = IF started THEN "range" ELSE "failed"
    /\ UNCHANGED <<store, clock, ret, ghost, conc, web, msgs, msgsClosed, deliveryTag, msg,
                   handlerErr, events, dlq>>

\* The broker delivers the next message of the queue to the consumer.
Deliver(body) ==
    /\ consumePC \notin {"idle", "failed"}
    /\ ~msgsClosed
    /\ deliveryTag < MaxDeliveries
    /\ deliveryTag' = deliveryTag + 1
    /\ msgs' = Append(msgs, [DeliveryTag |-> deliveryTag + 1, Body |-> body])
    /\ UNCHANGED <<store, clock, ret, ghost, conc, web, msgsClosed, consumePC, msg,
                   handlerErr, events, dlq>>

\* The channel or the connection is closed: msgs is closed; deliveries not
\* yet received are still handed out or are dropped.
CloseChannel ==
    /\ consumePC \notin {"idle", "failed"}
    /\ ~msgsClosed
    /\ msgsClosed' = TRUE
    /\ \E kept \in 0..Len(msgs) : msgs' = SubSeq(msgs, 1, kept)
    /\ UNCHANGED <<store, clock, ret, ghost, conc, web, deliveryTag, consumePC, msg,
                   handlerErr, events, dlq>>

\* for msg := range msgs: the next delivery is received.
Receive ==
    /\ consumePC = "range"
    /\ msgs # <<>>
    /\ msg' = Head(msgs)
    /\ msgs' = Tail(msgs)
    /\ consumePC' = "handle"
    /\ UNCHANGED <<store, clock, ret, ghost, conc, web, msgsClosed, deliveryTag,
                   handlerErr, events, dlq>>

\* err := handler(msg)
HandleStep ==
    /\ consumePC = "handle"
    /\ handlerErr' = handleOrder(msg)
    /\ events' = Append(events, [kind |-> "handler", tag |-> msg.DeliveryTag,
                                  err |-> handleOrder(msg)])
    /\ consumePC' = "settle"
    /\ UNCHANGED <<store, clock, ret, ghost, conc, web, msgs, msgsClosed, deliveryTag, msg, dlq>>

\* msg.Nack(false, false) or msg.Ack(false); the error the call returns, on
\* a closed channel, is dropped.  At the broker a message refused without
\* requeue takes the dead-letter route, one refused with requeue goes back
\* on the queue.
SettleStep ==
    /\ consumePC = "settle"
    /\ LET s == Settlement(handlerErr)
           done == ~msgsClosed
       IN /\ events' = Append(events, [kind |-> s.kind, tag |-> msg.DeliveryTag,
                                       multiple |-> s.multiple, requeue |-> s.requeue,
                                       done |-> done, err |-> handlerErr])
          /\ dlq' = IF done /\ s.kind = "nack" /\ ~s.requeue THEN Append(dlq, msg) ELSE dlq
          /\ msgs' = IF done /\ s.kind = "nack" /\ s.requeue THEN Append(msgs, msg) ELSE msgs
    /\ msg' = NoDelivery
    /\ handlerErr' = NilError
    /\ consumePC' = "range"
    /\ UNCHANGED <<store, clock, ret, ghost, conc, web, msgsClosed, deliveryTag>>

\* The range loop ends when msgs is closed and empty; Consume returns nil.
ConsumeReturn ==
    /\ consumePC = "range"
    /\ msgs = <<>>
    /\ msgsClosed
    /\ consumePC' = "returned"
    /\ UNCHANGED <<store, clock, ret, ghost, conc, web, msgs, msgsClosed, deliveryTag, msg,
                   handlerErr, events, dlq>>

ConsumerNext ==
    \/ ConsumeStart
    \/ \E body \in ConsumerBodies : Deliver(body)
    \/ CloseChannel
    \/ Receive
    \/ HandleStep
    \/ SettleStep
    \/ ConsumeReturn

\* The goroutine of Consume runs while it can: handleOrder has no loop and
\* the settling calls do not wait for the broker.
ConsumerSpec ==
    /\ Init
    /\ [][ConsumerNext]_vars
    /\ WF_vars(Receive \/ HandleStep \/ SettleStep \/ ConsumeReturn)

\* The messages Consume has received from msgs.
Received == IF consumePC = "handle" THEN (Len(events) \div 2) + 1 ELSE (Len(events) + 1) \div 2

\* The log of Consume is handler, settlement, handler, settlement, ...; the
\* i-th pair is about the i-th delivery.
SettledInOrder ==
    \A i \in 1..Len(events) :
        /\ events[i].tag = (i + 1) \div 2
        /\ events[i].kind = (IF i % 2 = 1 THEN "handler"
                             ELSE IF events[i].err = NilError THEN "ack" ELSE "nack")
        /\ i % 2 = 0 =>
               /\ events[i].err = events[i - 1].err
               /\ ~events[i].multiple
               /\ ~events[i].requeue

\* C40 - Consumer settlement: every message Consume receives is settled
\* exactly once, by Ack(false) iff the handler returned no error and by
\* Nack(false, false) iff it returned one, which sends the message to the
\* dead-letter route and never back on the queue; the messages are handled
\* one at a time in delivery order, the handler of a message starting only
\* after the message before it was settled; every message that reaches the
\* handler is settled; Consume returns from its loop only when the channel
\* is closed, with every message it received settled.
ConsumerSettlement ==
    /\ [](/\ SettledInOrder
          /\ consumePC = "handle" => Len(events) % 2 = 0 /\ msg.DeliveryTag = Len(events) \div 2 + 1
          /\ consumePC = "settle" => Len(events) % 2 = 1 /\ msg.DeliveryTag = events[Len(events)].tag
          /\ consumePC \in {"idle", "failed", "range", "returned"} => Len(events) % 2 = 0
          /\ \A i \in 1..Len(msgs) : msgs[i].DeliveryTag > Received
          /\ \A i \in 1..Len(dlq) :
                 \E j \in 1..Len(events) :
                     /\ events[j].kind = "nack" /\ events[j].tag = dlq[i].DeliveryTag
                     /\ handleOrder(dlq[i]) # NilError
          /\ \A j \in 1..Len(events) :
                 (events[j].kind = "nack" /\ events[j].done) =>
                     \E i \in 1..Len(dlq) : dlq[i].DeliveryTag = events[j].tag
          /\ consumePC = "returned" => msgsClosed /\ msgs = <<>>
          /\ consumePC = "failed" => events = <<>> /\ deliveryTag = 0)
    /\ \A t \in 1..(MaxDeliveries + 1) :
           (consumePC = "handle" /\ msg.DeliveryTag = t)
               ~> (Len(events) >= 2 * t /\ events[2 * t].kind \in {"ack", "nack"})

\* Three messages were delivered; the first was acknowledged, the second
\* refused and dead-lettered, the third handled after the channel was
\* closed, and Consume has returned.
ConsumerSettlementWitness ==
    /\ consumePC = "returned"
    /\ Len(events) = 6
    /\ events[2].kind = "ack" /\ events[2].done
    /\ events[4].kind = "nack" /\ events[4].done
    /\ Len(dlq) = 1 /\ dlq[1].DeliveryTag = 2
    /\ ~events[6].done

=============================================================================
